---- MODULE Spec2Model ----
(***************************************************************************)
(* A model of the behindy-story generation service: the multiplayer phase  *)
(* engine (services/multiplayer_story_service.py) and its HTTP handler     *)
(* (main.py), the single-player quality pipeline                           *)
(* (services/story_service.py) and the batch story service                 *)
(* (services/batch_story_service.py).                                      *)
(*                                                                         *)
(* Conventions.  Korean literals of the source are written in ASCII:       *)
(*   "mystery" / "horror" / "thriller" are the three ALLOWED_THEMES,       *)
(*   "daily" and "adventure" the two out-of-set themes the code itself     *)
(*   uses, "romance" an out-of-set theme a remote model may answer.        *)
(* Optional[str] values are records [some, text]; None is [some |-> FALSE].*)
(* A provider result is a record with a kind ("raise", "nondict", "dict")  *)
(* and, per JSON field, a tag saying whether the field is absent, well     *)
(* typed or ill typed.  pydantic validation errors and Python exceptions   *)
(* are modelled by ...Raises predicates that decide which except branch    *)
(* runs.                                                                   *)
(***************************************************************************)
EXTENDS Integers, Sequences, FiniteSets, TLC

VARIABLES
    provider,        \* get_provider_name() of the provider the services hold
    m_pc,            \* generate_next_phase: "idle", "called", "returned"
    m_request,       \* the MultiplayerStoryRequest given to the engine
    m_result,        \* what provider.generate_story answered during the call
    m_response,      \* what generate_next_phase returned
    h_pc,            \* POST /llm/multiplayer/next-phase: "idle", "received", "answered"
    h_request,       \* the request body
    h_key,           \* its X-Internal-API-Key header
    h_out,           \* how the handler generate_multiplayer_story ended
    max_retries,     \* StoryService.max_retries
    min_quality_score, \* StoryService.min_quality_score
    s_pc,            \* StoryService.generate_story: "idle", "generating", "scoring", "returned"
    s_request,       \* the StoryGenerationRequest
    s_history,       \* how each finished attempt of the retry loop ended
    s_draft,         \* story_result of the running attempt
    s_story,         \* what _generate_validated_story returned
    s_response,      \* what generate_story returned
    s_quality,       \* the last scoring of the call: the provider's answer and the QualityScore
    s_calls,         \* the provider calls of the call so far: generation and scoring
    s_json_failures, \* quality_stats["json_failures"], less its value when the call began
    b_pc,            \* BatchStoryService.generate_complete_story: "idle", "metadata", "pages", "returned"
    b_request,       \* the BatchStoryRequest
    b_result,        \* what provider.generate_story answered to the metadata prompt
    b_story_info,    \* story_info, the metadata of the story
    b_pages,         \* pages, the list _generate_story_pages is filling
    b_answer,        \* what the provider answered to the latest page call
    b_response,      \* what generate_complete_story returned
    now,             \* time.time(), in whole seconds
    rl_calls,        \* how many calls of check_rate_limit were made
    rl_requests,     \* RateLimiter._requests: per client, the recorded timestamps
    rl_total,        \* RateLimiter._total_requests
    rl_accepted,     \* history: per client, the timestamps of all accepted calls
    rl_last,         \* the last call of check_rate_limit and how it ended
    e_pc,            \* POST /generate-complete-story: per request in flight, idle, generating, answered
    e_call,          \* per request in flight: body, header, client address, what the handler did
    e_out,           \* per request in flight: how the handler ended
    e_count,         \* how many requests the endpoint received
    v_pc,            \* POST /validate-story-structure: idle, received, answered
    v_call,          \* the story_data and the X-Internal-API-Key header it was sent with
    v_out,           \* how validate_story_structure (main.py) ended
    t_calls,         \* the calls of _get_fallback_theme so far: station and returned theme
    f_pc,            \* LLMProviderFactory.get_provider: "idle", "called", "returned"
    f_settings,      \* the settings the factory reads
    f_provider,      \* the provider the factory returned
    r_pc,            \* an HTTP request to the application: "idle", "sent", "answered"
    r_call,          \* its method, path and body
    r_status,        \* the status of the answer
    o_pc,            \* OpenAIProvider.generate_story: "idle", "called", "returned"
    o_call,          \* the provider's state, the transport outcome and the context
    o_out,           \* what the call returned or raised
    c_pc,            \* StoryService.continue_story: "idle", "called", "returned"
    c_request,       \* its request
    c_out,           \* what the call returned or raised
    c_theme,         \* the theme of the story the request continues
    c_prompt,        \* the user prompt the call built (NoValue with the mock provider)
    j_pc,            \* StoryService._validate_json_structure: "idle", "called", "returned"
    j_call,          \* the candidate it is given
    j_out,           \* the ValidationResult, and the candidate as the call leaves it
    w_pc,            \* MultiplayerStoryService._build_story_prompt: "idle", "called", "returned"
    w_request,       \* the request whose prompt is built
    w_prompt,        \* the chat history the prompt embeds
    k_pc,            \* a multiplayer conversation: "idle", "calling", "answered", "ended"
    k_request,       \* the request the caller sent last
    k_response,      \* the response to it
    k_log            \* the phases of the requests sent and of the responses so far

m_vars == <<m_pc, m_request, m_result, m_response>>
h_vars == <<h_pc, h_request, h_key, h_out>>
s_vars == <<s_pc, s_request, s_history, s_draft, s_story, s_response,
            s_quality, s_calls, s_json_failures>>
b_vars == <<b_pc, b_request, b_result, b_story_info, b_pages, b_answer, b_response>>
cfg_vars == <<provider, max_retries, min_quality_score>>

rl_vars == <<now, rl_calls, rl_requests, rl_total, rl_accepted, rl_last>>
e_vars == <<e_pc, e_call, e_out, e_count>>
v_vars == <<v_pc, v_call, v_out>>
f_vars == <<f_pc, f_settings, f_provider>>
r_vars == <<r_pc, r_call, r_status>>
o_vars == <<o_pc, o_call, o_out>>
c_vars == <<c_pc, c_request, c_out, c_theme, c_prompt>>
x_vars == <<f_vars, r_vars, o_vars, c_vars>>
j_vars == <<j_pc, j_call, j_out>>
w_vars == <<w_pc, w_request, w_prompt>>
k_vars == <<k_pc, k_request, k_response, k_log>>
y_vars == <<j_vars, w_vars, k_vars>>
api_vars == <<rl_vars, e_vars, v_vars, t_calls, x_vars, y_vars>>

vars == <<cfg_vars, m_vars, h_vars, s_vars, b_vars, api_vars>>

(***************************************************************************)
(* Bounds of the model                                                     *)
(***************************************************************************)
MaxPhase == 9           \* request.phase ranges over 0..MaxPhase
MaxParticipants == 3    \* a request carries 0..MaxParticipants participants
MaxEffects == 2         \* a provider result carries at most MaxEffects effect entries
MaxRetriesConfig == 3   \* StoryService is constructed with max_retries in 1..MaxRetriesConfig
MaxOptions == 5         \* a provider's page or story carries at most MaxOptions options
MaxPagesProposed == 9   \* the largest estimated_length a remote model proposes
MaxOddPages == 2        \* per story, at most MaxOddPages page answers differ from the plain page
MaxCalls == 3           \* at most MaxCalls calls of check_rate_limit are made
Headroom == 1           \* a client with earlier traffic starts Headroom calls below the limit
MaxValidatedPages == 11 \* the longest pages list sent to the validator
MaxThemeCalls == 4      \* calls of _get_fallback_theme in a row
MaxRequests == 2        \* requests POST /generate-complete-story receives
MaxMessages == 22       \* the longest message_stack a request carries
MaxTalkers == 1         \* a conversation is held by 0..MaxTalkers participants

(***************************************************************************)
(* Common values                                                           *)
(***************************************************************************)
None == [some |-> FALSE, text |-> ""]
Some(t) == [some |-> TRUE, text |-> t]

ALLOWED_THEMES == {"mystery", "horror", "thriller"}

MockProviderName == "Mock Provider"
ProviderNames == {MockProviderName, "OpenAI gpt-4o-mini", "Claude claude-3-haiku-20240307"}

\* `"mock" in provider_name` after lower(): only MockProvider's name holds it.
IsMock(name) == name = MockProviderName

\* random.randint(lo, hi), sampled at the two ends of its range.
RandInt(lo, hi) == {lo, hi}

NoValue == [none |-> TRUE]

(***************************************************************************)
(* Multiplayer models (models/multiplayer_models.py)                       *)
(***************************************************************************)
ParticipantInfo(i) == [character_name |-> i, hp |-> 80, sanity |-> 80]

\* a roster of n participants, named 1..n
Roster(n) == [i \in 1..n |-> ParticipantInfo(i)]

MultiplayerStoryRequests ==
    [phase : 0..MaxPhase,
     station_name : {"gangnam"},
     story_outline : {None, Some("outline")},
     participants : {Roster(n) : n \in 0..MaxParticipants},
     is_intro : BOOLEAN]

ParticipantUpdate(name, hp, san) ==
    [character_name |-> name, hp_change |-> hp, sanity_change |-> san]

StoryContent(situation, event, hint) ==
    [current_situation |-> situation, special_event |-> event, hint |-> hint]

MultiplayerStoryResponse(story, effects, phase, is_ending, outline, psummary, esummary) ==
    [story |-> story, effects |-> effects, phase |-> phase, is_ending |-> is_ending,
     story_outline |-> outline, phase_summary |-> psummary, ending_summary |-> esummary]

\* the attributes the two pydantic models declare
MultiplayerStoryRequestFields ==
    {"room_id", "phase", "station_name", "story_outline", "participants",
     "message_stack", "story_history", "is_intro"}

MultiplayerStoryResponseFields ==
    {"story", "effects", "phase", "is_ending", "story_outline", "phase_summary",
     "ending_summary"}

\* fields of MultiplayerStoryResponse declared with Field(...): required
MultiplayerStoryResponseRequired == {"story", "phase"}

(***************************************************************************)
(* What a remote provider may answer to a multiplayer prompt               *)
(***************************************************************************)
\* one element of result["effects"]: a mapping ParticipantUpdate accepts ("ok"),
\* a mapping it rejects ("bad": no character_name, or a non-integer delta), or
\* something that is not a mapping ("nondict").  An "ok" entry names the first
\* participant or a character that is in no roster.
EffectEntry(kind, name) ==
    [kind |-> kind, character_name |-> name,
     hp_change |-> IF kind = "ok" THEN -5 ELSE 0,
     sanity_change |-> IF kind = "ok" THEN 3 ELSE 0]

WellTypedEntries ==
    {EffectEntry("ok", 1), EffectEntry("ok", MaxParticipants + 1), EffectEntry("nondict", 0)}

EffectEntries == WellTypedEntries \cup {EffectEntry("bad", 0)}

SeqsUpTo(S, n) == UNION {[1..k -> S] : k \in 0..n}

\* the (is_ending, ending_summary) members of an answer
EndingAnswers ==
    {<<"absent", "absent">>, <<"false", "text">>,
     <<"true", "absent">>, <<"true", "empty">>, <<"true", "text">>}

ProviderResult(kind, story, outline, psummary, ending, effects) ==
    [kind |-> kind, story |-> story, story_outline |-> outline,
     phase_summary |-> psummary, is_ending |-> ending[1],
     ending_summary |-> ending[2], effects |-> effects]

NonDictResult(k) == ProviderResult(k, "absent", "absent", "absent", <<"absent", "absent">>, <<>>)

\* story: "absent", a mapping of strings ("ok"), a mapping with a non-string
\* member ("bad"), or not a mapping ("nondict").
\* Answers every member of which pydantic accepts:
WellTypedPhaseResults ==
    {ProviderResult("dict", st, "absent", "text", en, ef) :
        st \in {"absent", "ok", "nondict"}, en \in EndingAnswers,
        ef \in SeqsUpTo(WellTypedEntries, MaxEffects)}

\* answers with one ill-typed member: the story, or an effect entry
IllTypedPhaseResults ==
    {ProviderResult("dict", "bad", "absent", "text", <<"absent", "absent">>, <<>>)}
    \cup {ProviderResult("dict", "ok", "absent", "text", <<"absent", "absent">>, ef) :
            ef \in SeqsUpTo(EffectEntries, MaxEffects) \ SeqsUpTo(WellTypedEntries, MaxEffects)}

PhaseResults == WellTypedPhaseResults \cup IllTypedPhaseResults

IntroResults ==
    {ProviderResult("dict", st, ol, ps, en, ef) :
        st \in {"absent", "ok", "bad", "nondict"}, ol \in {"absent", "text"},
        ps \in {"absent", "text"}, en \in {<<"absent", "absent">>, <<"true", "text">>},
        ef \in {<<>>, <<EffectEntry("ok", 1)>>}}

\* generate_story raised, or returned something that is not a mapping
FailedResults == {NonDictResult("raise"), NonDictResult("nondict")}

\* ClaudeProvider.generate_story returns its canned single-page story whatever
\* the prompt: a mapping with none of the multiplayer fields
ClaudeCannedResult == NonDictResult("dict")

IsClaude(name) == name = "Claude claude-3-haiku-20240307"

\* the results provider.generate_story can produce for a prompt whose remote
\* answers are `answers`
ProviderResults(name, answers) ==
    IF IsClaude(name) THEN {ClaudeCannedResult} ELSE answers \cup FailedResults

(***************************************************************************)
(* MultiplayerStoryService (services/multiplayer_story_service.py)         *)
(***************************************************************************)
ENDING_PHASE == 8

\* the (hp_change, sanity_change) draws for n participants, each from lo..hi
RandomDeltas(n, lo, hi) == [1..n -> RandInt(lo, hi) \X RandInt(lo, hi)]

_create_default_story_content(request) ==
    StoryContent(request.station_name \o ": something unexpected happens",
                 "tension rises", "act carefully")

\* StoryContent(...) built from result["story"]; "absent" is the {} default,
\* whose three members default to ""
ParsedStoryContent(result, request) ==
    CASE result.story = "ok" -> StoryContent("situation", "event", "hint")
      [] result.story = "absent" -> StoryContent("", "", "")
      [] OTHER -> _create_default_story_content(request)

\* StoryContent(...) fails validation on a non-string member
StoryContentRaises(result) == result.story = "bad"

_create_default_effects(participants, deltas) ==
    [i \in 1..Len(participants) |->
        ParticipantUpdate(participants[i].character_name, deltas[i][1], deltas[i][2])]

MockThemes == {"mystery", "horror", "thriller"}

\* a plausible slip: the ending starts one phase late
MockIsEnding_strict(request) == request.phase > ENDING_PHASE

\* is_ending = request.phase >= 8
MockIsEnding(request) == request.phase >= ENDING_PHASE

_create_mock_response(request, selected_theme, deltas) ==
    IF request.is_intro
    THEN MultiplayerStoryResponse(
            StoryContent(request.station_name \o ": a strange air on arrival",
                         "shadows move along the wall", "look around for clues"),
            <<>>, 1, FALSE,
            Some(request.station_name \o ": a mystery to solve in 5-8 phases"),
            Some(request.station_name \o ": arrived and sensed a strange air"),
            None)
    ELSE LET is_ending == MockIsEnding(request)
         IN MultiplayerStoryResponse(
                StoryContent(request.station_name \o ": " \o selected_theme \o " situation",
                             selected_theme \o " event", selected_theme \o " hint"),
                [i \in 1..Len(request.participants) |->
                    ParticipantUpdate(request.participants[i].character_name,
                                      deltas[i][1], deltas[i][2])],
                request.phase + 1,
                is_ending,
                request.story_outline,
                Some(selected_theme \o " theme in progress"),
                IF is_ending
                THEN Some(request.station_name \o ": the adventure has ended")
                ELSE None)

\* a plausible slip: the mock response of a later phase carries no outline
MockResponses_nooutline(request) ==
    IF request.is_intro
    THEN {_create_mock_response(request, "mystery", <<>>)}
    ELSE {[_create_mock_response(request, t, d) EXCEPT !.story_outline = None] :
            t \in MockThemes, d \in RandomDeltas(Len(request.participants), -3, 2)}

\* every response _create_mock_response can return for the request
MockResponses(request) ==
    IF request.is_intro
    THEN {_create_mock_response(request, "mystery", <<>>)}
    ELSE {_create_mock_response(request, t, d) :
            t \in MockThemes, d \in RandomDeltas(Len(request.participants), -3, 2)}

\* the ParticipantUpdate objects built from the mappings of result["effects"]
ParsedEffects(result) ==
    LET IsDict(e) == e.kind # "nondict"
        kept == SelectSeq(result.effects, IsDict)
    IN [i \in 1..Len(kept) |->
            ParticipantUpdate(kept[i].character_name, kept[i].hp_change,
                              kept[i].sanity_change)]

\* ParticipantUpdate(**effect_data) fails validation
EffectsRaise(result) ==
    \E i \in 1..Len(result.effects) : result.effects[i].kind = "bad"

OptionalText(tag) ==
    CASE tag = "absent" -> None
      [] tag = "empty" -> Some("")
      [] OTHER -> Some("provider " \o tag)

ParseRaises(result) == StoryContentRaises(result) \/ EffectsRaise(result)

\* a plausible slip: the request's phase is echoed
ParsedPhase_echo(request) == request.phase

\* phase = request.phase + 1
ParsedPhase(request) == request.phase + 1

_parse_llm_response(result, request, deltas) ==
    LET is_ending == result.is_ending = "true"
        phase_summary == IF result.phase_summary = "absent" THEN Some("")
                         ELSE Some("provider summary")
        ending_summary == IF is_ending THEN OptionalText(result.ending_summary) ELSE None
        parsed == ParsedEffects(result)
        effects == IF parsed = <<>>
                   THEN _create_default_effects(request.participants, deltas)
                   ELSE parsed
    IN MultiplayerStoryResponse(ParsedStoryContent(result, request), effects,
                                ParsedPhase(request), is_ending, request.story_outline,
                                phase_summary, ending_summary)

\* every response _parse_llm_response can return (it draws random deltas only
\* when no effect entry was kept)
ParsedResponses(result, request) ==
    IF ParsedEffects(result) = <<>>
    THEN {_parse_llm_response(result, request, d) :
            d \in RandomDeltas(Len(request.participants), -2, 1)}
    ELSE {_parse_llm_response(result, request, <<>>)}

_generate_story(request, result) ==
    IF result.kind = "dict" /\ ~ParseRaises(result)
    THEN ParsedResponses(result, request)
    ELSE MockResponses(request)

\* a plausible slip: the provider's effects are passed through
IntroEffects_parsed(result) ==
    LET IsOk(e) == e.kind = "ok"
        kept == SelectSeq(result.effects, IsOk)
    IN [i \in 1..Len(kept) |->
            ParticipantUpdate(kept[i].character_name, kept[i].hp_change,
                              kept[i].sanity_change)]

\* effects=[] of the intro response, whatever result["effects"] holds
IntroEffects(result) == <<>>

_generate_intro(request, result) ==
    IF result.kind = "dict" /\ ~StoryContentRaises(result)
    THEN {MultiplayerStoryResponse(
            ParsedStoryContent(result, request), IntroEffects(result), 1, FALSE,
            IF result.story_outline = "absent"
            THEN Some(request.station_name \o ": a mystery at the station")
            ELSE Some("provider outline"),
            IF result.phase_summary = "absent"
            THEN Some(request.station_name \o ": arrived and sensed a strange air")
            ELSE Some("provider summary"),
            None)}
    ELSE MockResponses(request)

\* the provider results the call can meet, by the prompt it sends
PromptResults(name, request) ==
    ProviderResults(name, IF request.is_intro THEN IntroResults ELSE PhaseResults)

\* a plausible slip: no except clause on the way, so a provider failure or a
\* validation error leaves generate_next_phase
generate_next_phase_uncaught(name, request, result) ==
    CASE IsMock(name) -> MockResponses(request)
      [] ~IsMock(name) /\ result.kind = "raise" -> {[raised |-> "Exception"]}
      [] ~IsMock(name) /\ result.kind = "dict" /\ StoryContentRaises(result) ->
            {[raised |-> "ValidationError"]}
      [] ~IsMock(name) /\ result.kind = "dict" /\ ~StoryContentRaises(result)
            /\ ~request.is_intro /\ EffectsRaise(result) ->
            {[raised |-> "ValidationError"]}
      [] OTHER -> IF request.is_intro THEN _generate_intro(request, result)
                  ELSE _generate_story(request, result)

\* the responses generate_next_phase can return when the provider answers result
generate_next_phase(name, request, result) ==
    IF IsMock(name) THEN MockResponses(request)
    ELSE IF request.is_intro THEN _generate_intro(request, result)
    ELSE _generate_story(request, result)

\* generate_next_phase over every answer the provider can give; with the mock
\* provider no provider call is made
NextPhaseResponses(name, request) ==
    IF IsMock(name) THEN generate_next_phase(name, request, ClaudeCannedResult)
    ELSE UNION {generate_next_phase(name, request, r) : r \in PromptResults(name, request)}

(***************************************************************************)
(* POST /llm/multiplayer/next-phase (main.py)                              *)
(***************************************************************************)
INTERNAL_API_KEY == "behindy-internal-2025-secret-key"

\* the X-Internal-API-Key header: right, wrong, or not sent
ApiKeys == {INTERNAL_API_KEY, "wrong-key", "no-header"}

Returned(response) ==
    [kind |-> "response", status |-> 200, exc |-> "", engine_called |-> TRUE,
     response |-> response]

\* the handler raised HTTPException(status)
RaisedHTTP(status, called) ==
    [kind |-> "http_exception", status |-> status, exc |-> "HTTPException",
     engine_called |-> called, response |-> NoValue]

\* the handler ended in an exception that is no HTTPException
Raised(exc, called) ==
    [kind |-> "exception", status |-> 500, exc |-> exc, engine_called |-> called,
     response |-> NoValue]

\* reading an attribute a pydantic model does not declare raises AttributeError
ReadsRaise(reads, declared) == ~(reads \subseteq declared)

\* the try block of generate_multiplayer_story
generate_multiplayer_story_try(name, request, key) ==
    IF ReadsRaise({"station_name", "line_number", "current_phase",
                   "participants", "recent_messages"},
                  MultiplayerStoryRequestFields)
    THEN {Raised("AttributeError", FALSE)}
    ELSE IF key # INTERNAL_API_KEY
    THEN {RaisedHTTP(403, FALSE)}
    ELSE IF ReadsRaise({"content", "participant_updates"},
                       MultiplayerStoryResponseFields)
    THEN {Raised("AttributeError", TRUE)}
    ELSE {Returned(r) : r \in NextPhaseResponses(name, request)}

\* the `except Exception` block: it builds a MultiplayerStoryResponse from
\* content, summary and participant_updates
generate_multiplayer_story_except(request, called) ==
    IF ReadsRaise({"station_name", "current_phase", "participants"},
                  MultiplayerStoryRequestFields)
    THEN Raised("AttributeError", called)
    ELSE IF ~(MultiplayerStoryResponseRequired
                \subseteq {"content", "summary", "participant_updates"})
    THEN Raised("ValidationError", called)
    ELSE Returned([content |-> request.station_name \o ": something unexpected happens",
                   summary |-> "phase in progress",
                   participant_updates |->
                       [i \in 1..Len(request.participants) |->
                           ParticipantUpdate(request.participants[i].character_name,
                                             -1, -1)]])

\* every way the handler can end for the request and header
generate_multiplayer_story(name, request, key) ==
    {IF o.kind = "exception"
     THEN generate_multiplayer_story_except(request, o.engine_called)
     ELSE o : o \in generate_multiplayer_story_try(name, request, key)}

(***************************************************************************)
(* Stations and the story all services share                               *)
(***************************************************************************)
\* "gangnam" and "jamsil" are stations of the lookup tables, "unknown" is not
Stations == {"gangnam", "jamsil", "unknown"}

\* STATION_CONFIG of templates/mock_templates.py, with its default entry
StationConfigTheme(station_name) ==
    CASE station_name = "gangnam" -> "thriller"
      [] station_name = "jamsil" -> "horror"
      [] OTHER -> "mystery"

StationConfigLine(station_name) ==
    IF station_name \in {"gangnam", "jamsil"} THEN 2 ELSE 1

\* one option of a story or page, as the provider wrote it: a mapping with the
\* four members ("ok"), a mapping with a member missing ("partial"), a mapping
\* whose amount is no integer ("nonint"), or no mapping ("nondict")
Option(kind, effect, amount) == [kind |-> kind, effect |-> effect, amount |-> amount]

BaseOption == Option("ok", "health", -2)

Repeat(x, n) == [i \in 1..n |-> x]

\* the option lists a remote model may write: 0..MaxOptions plain options; two
\* options the first of which varies in effect and amount; a list with an
\* entry that is not a well-formed option
OptionLists ==
    {Repeat(BaseOption, n) : n \in 0..MaxOptions}
    \cup {<<Option("ok", e, a), BaseOption>> :
            e \in {"sanity", "none", "luck"}, a \in {-11, -10, 10, 11}}
    \cup {<<BaseOption, Option(k, "health", 1), BaseOption>> :
            k \in {"partial", "nonint", "nondict"}}

(***************************************************************************)
(* StoryService (services/story_service.py)                                *)
(***************************************************************************)
DEFAULT_MIN_QUALITY_SCORE == 70
DEFAULT_MAX_RETRIES == 3
FALLBACK_QUALITY_SCORE == 60
FALLBACK_FEEDBACK == "Fallback story (quality validation bypassed)"

REQUIRED_FIELDS ==
    {"story_title", "page_content", "options", "difficulty", "theme",
     "station_name", "line_number"}

StoryGenerationRequests == [station_name : Stations, line_number : {2}]

\* a generation answer.  missing: the required members the mapping lacks;
\* typed: every member has the type StoryGenerationResponse declares for it
Draft(kind, missing, typed, theme, options, station_name, line_number) ==
    [kind |-> kind, missing |-> missing, typed |-> typed, theme |-> theme,
     options |-> options, station_name |-> station_name,
     line_number |-> line_number,
     quality_score |-> 0, quality_feedback |-> ""]

\* OpenAIProvider._fallback_response / ClaudeProvider._fallback_response
_fallback_response(context) ==
    Draft("dict", {}, TRUE, "adventure",
          <<Option("ok", "sanity", 3), Option("ok", "health", -2)>>,
          context.station_name, context.line_number)

\* MockStoryGenerator.generate_story, which MockProvider.generate_story returns
_generate_themed_options(theme) ==
    CASE theme = "horror" ->
            <<Option("ok", "health", -8), Option("ok", "sanity", 2), Option("ok", "sanity", -3)>>
      [] theme = "mystery" ->
            <<Option("ok", "health", -3), Option("ok", "sanity", 5), Option("ok", "none", 0)>>
      [] OTHER ->
            <<Option("ok", "health", -6), Option("ok", "sanity", 3), Option("ok", "sanity", -2)>>

MockStory(station_name) ==
    Draft("dict", {}, TRUE, StationConfigTheme(station_name),
          _generate_themed_options(StationConfigTheme(station_name)),
          station_name, StationConfigLine(station_name))

\* generate_story raised (no key, an HTTP error, a timeout, JSON that is no
\* object): _generate_story_with_external_prompt turns it into None
FailedDrafts(context) ==
    {Draft("raise", {}, TRUE, "", <<>>, context.station_name, context.line_number)}

\* what a remote model may answer to the generation prompt
RemoteDrafts(context) ==
    {Draft("dict", {}, TRUE, th, op, context.station_name, context.line_number) :
        th \in ALLOWED_THEMES \cup {"romance"}, op \in OptionLists}
    \cup {Draft("dict", ms, TRUE, "horror", Repeat(BaseOption, 2),
                context.station_name, context.line_number) :
            ms \in {{"theme"}, {"story_title"}, {"options"}}}
    \cup {Draft("dict", {}, FALSE, "horror", Repeat(BaseOption, 2),
                context.station_name, context.line_number)}

\* the answers provider.generate_story can give to the generation prompt
GenerationAnswers(name, context) ==
    CASE IsMock(name) -> {MockStory(context.station_name)}
      [] IsClaude(name) -> {_fallback_response(context)}
      [] OTHER -> RemoteDrafts(context) \cup {_fallback_response(context)}
                    \cup FailedDrafts(context)

ValidationErrors_fields(story_data) ==
    {<<"missing", f>> : f \in story_data.missing}

\* the error list of _validate_json_structure for a mapping
ValidationErrors(story_data) ==
    LET options == IF "options" \in story_data.missing THEN <<>> ELSE story_data.options
    IN {<<"missing", f>> : f \in story_data.missing}
       \cup (IF Len(options) < 2 \/ Len(options) > 4 THEN {<<"count", Len(options)>>} ELSE {})
       \cup {<<"format", i>> : i \in {j \in 1..Len(options) : options[j].kind = "nondict"}}
       \cup {<<"field", i>> : i \in {j \in 1..Len(options) : options[j].kind = "partial"}}
       \cup {<<"effect", i>> :
                i \in {j \in 1..Len(options) :
                        /\ options[j].kind # "nondict"
                        /\ options[j].effect \notin {"health", "sanity", "none"}}}
       \cup {<<"amount", i>> :
                i \in {j \in 1..Len(options) :
                        /\ options[j].kind # "nondict"
                        /\ \/ options[j].kind = "nonint"
                           \/ options[j].amount < -10
                           \/ options[j].amount > 10}}

\* ValidationResult.is_valid; a value that is no mapping raises inside the
\* validator, which answers is_valid = False
_validate_json_structure(story_data) ==
    IF story_data.kind # "dict" THEN FALSE
    ELSE ValidationErrors(story_data) = {}

\* a scoring answer: total_score may be absent, or present and not a number
ScoreAnswer(kind, has_total, numeric, total_score) ==
    [kind |-> kind, has_total |-> has_total, numeric |-> numeric,
     total_score |-> total_score, sub_scores |-> <<0, 0, 0, 0, 0>>]

\* a scoring answer that holds creativity, coherence, engagement,
\* korean_quality and game_suitability
WithSubScores(answer, sub_scores) == [answer EXCEPT !.sub_scores = sub_scores]

RemoteScores ==
    {ScoreAnswer("dict", TRUE, TRUE, t) : t \in {0, 69, 70, 95}}
    \cup {ScoreAnswer("dict", FALSE, TRUE, 0), ScoreAnswer("dict", TRUE, FALSE, 0),
          ScoreAnswer("raise", FALSE, TRUE, 0), ScoreAnswer("nondict", FALSE, TRUE, 0),
          WithSubScores(ScoreAnswer("dict", FALSE, TRUE, 0), <<15, 15, 15, 15, 15>>)}

\* a plausible slip: the mock and Claude providers answer the evaluation
\* prompt with a score
ScoreAnswers_scored(name) ==
    IF IsMock(name) \/ IsClaude(name) THEN {ScoreAnswer("dict", TRUE, TRUE, 95)}
    ELSE RemoteScores

\* the answers provider.generate_story can give to the evaluation prompt: the
\* mock and Claude providers answer a story, which holds no total_score
ScoreAnswers(name) ==
    IF IsMock(name) \/ IsClaude(name) THEN {ScoreAnswer("dict", FALSE, TRUE, 0)}
    ELSE RemoteScores

QualityScore(total_score, sub_scores, feedback, passed) ==
    [total_score |-> total_score, sub_scores |-> sub_scores,
     feedback |-> feedback, passed |-> passed]

Passes_any(total_score, min_score) == TRUE

\* `total_score >= self.min_quality_score`
Passes(total_score, min_score) == total_score >= min_score

_evaluate_story_quality(result, min_score) ==
    IF result.kind = "dict" /\ result.numeric
    THEN LET total_score == IF result.has_total THEN result.total_score ELSE 0
         IN QualityScore(total_score, result.sub_scores, "evaluated",
                         Passes(total_score, min_score))
    ELSE QualityScore(0, <<0, 0, 0, 0, 0>>, "evaluation failed", FALSE)

\* the values given to min_quality_score by the constructor or by
\* update_quality_config
MinScoresConfig == {0, DEFAULT_MIN_QUALITY_SCORE}

_create_fallback_story(context) ==
    [Draft("dict", {}, TRUE, "mystery",
           <<Option("ok", "sanity", 3), Option("ok", "health", -2)>>,
           context.station_name, context.line_number)
     EXCEPT !.quality_score = FALLBACK_QUALITY_SCORE,
            !.quality_feedback = FALLBACK_FEEDBACK]

StoryGenerationResponse(theme, options, station_name, line_number) ==
    [theme |-> theme, options |-> options, station_name |-> station_name,
     line_number |-> line_number]

_create_fallback_response(request) ==
    StoryGenerationResponse("daily",
        <<Option("ok", "sanity", 2), Option("ok", "health", -1)>>,
        request.station_name, request.line_number)

\* the tail of generate_story: the response built from story_data, or
\* _create_fallback_response when a member fails StoryGenerationResponse
StoryResponse(story_data, request) ==
    IF ~story_data.typed THEN _create_fallback_response(request)
    ELSE StoryGenerationResponse(story_data.theme, story_data.options,
                                 story_data.station_name, story_data.line_number)

(***************************************************************************)
(* BatchStoryService (services/batch_story_service.py)                     *)
(***************************************************************************)
MIN_STORY_LENGTH == 3
MAX_STORY_LENGTH == 8
DEFAULT_ESTIMATED_LENGTH == 5
FALLBACK_STORY_PAGES == 3

BatchStoryRequests == [station_name : Stations, line_number : {2}]

\* the stations of theme_mapping that are modelled, with their themes
theme_mapping == [gangnam |-> "thriller", jamsil |-> "horror"]

_get_fallback_theme_random(station_name) == ALLOWED_THEMES

\* theme_mapping.get(station_name, random.choice(ALLOWED_THEMES))
_get_fallback_theme(station_name) ==
    CASE station_name = "gangnam" -> {"thriller"}
      [] station_name = "jamsil" -> {"horror"}
      [] OTHER -> ALLOWED_THEMES

ThemeAllowed_any(theme) == TRUE

\* `theme in ALLOWED_THEMES`; an absent theme is the string "absent"
ThemeAllowed(theme) == theme \in ALLOWED_THEMES

\* estimated_length of a metadata mapping: absent, an int, or no int
Length(kind, n) == [kind |-> kind, n |-> n]

\* a metadata mapping: the provider's answer, and later story_info
StoryInfo(kind, has_title, theme, keywords, complete, estimated_length) ==
    [kind |-> kind, has_title |-> has_title, theme |-> theme,
     keywords |-> keywords, complete |-> complete,
     estimated_length |-> estimated_length,
     station_name |-> "absent", line_number |-> 0]

\* a metadata mapping that names a station and a line itself
WithStation(story_info, station_name, line_number) ==
    [story_info EXCEPT !.station_name = station_name, !.line_number = line_number]

_create_mock_story_metadata(request) ==
    {StoryInfo("dict", TRUE, selected_theme, "list", TRUE, Length("int", n)) :
        selected_theme \in _get_fallback_theme(request.station_name),
        n \in RandInt(4, 6)}

\* the canned story of the Claude provider read as metadata: a title, the
\* theme "adventure", estimated_length 5, no description and no keywords
CannedMetadata == StoryInfo("dict", TRUE, "adventure", "absent", FALSE, Length("int", 5))

\* what a remote model may answer to the metadata prompt.  complete: the
\* mapping holds description and difficulty as strings
RemoteMetadata ==
    {StoryInfo("dict", TRUE, th, "list", TRUE, len) :
        th \in ALLOWED_THEMES \cup {"romance", "absent"},
        len \in {Length("absent", 0), Length("int", 0), Length("int", 1),
                 Length("int", MaxPagesProposed), Length("nonint", 0)}}
    \cup {StoryInfo("dict", FALSE, "horror", "list", TRUE, Length("int", 1)),
          StoryInfo("dict", TRUE, "horror", "nonlist", TRUE, Length("int", 1)),
          StoryInfo("dict", TRUE, "horror", "absent", TRUE, Length("int", 1)),
          StoryInfo("dict", TRUE, "horror", "list", FALSE, Length("int", 1)),
          StoryInfo("raise", FALSE, "absent", "absent", FALSE, Length("absent", 0)),
          WithStation(StoryInfo("dict", TRUE, "horror", "list", TRUE, Length("int", 1)),
                      "seoul", 1)}

MetadataAnswers(name) ==
    IF IsClaude(name) THEN {CannedMetadata} ELSE RemoteMetadata

\* the remote branch of _generate_story_metadata for the provider's answer
CheckedMetadata(request, result) ==
    LET themed ==
            IF ThemeAllowed(result.theme) THEN {result}
            ELSE {[result EXCEPT !.theme = t] :
                    t \in _get_fallback_theme(request.station_name)}
    IN CASE result.kind # "dict" -> _create_mock_story_metadata(request)
         [] result.kind = "dict" /\ ~result.has_title ->
                _create_mock_story_metadata(request)
         \* result['keywords'].append raises on a value that is no list
         [] result.kind = "dict" /\ result.has_title /\ result.keywords = "nonlist" ->
                _create_mock_story_metadata(request)
         [] OTHER -> themed

_generate_story_metadata(name, request, result) ==
    IF IsMock(name) THEN _create_mock_story_metadata(request)
    ELSE CheckedMetadata(request, result)

\* lines 53-55 of generate_complete_story
RestrictedTheme(request, story_info) ==
    IF ThemeAllowed(story_info.theme) THEN {story_info}
    ELSE {[story_info EXCEPT !.theme = t] :
            t \in _get_fallback_theme(request.station_name)}

\* target_length of _generate_story_pages
TargetLength(story_info) ==
    IF story_info.estimated_length.kind = "absent" THEN DEFAULT_ESTIMATED_LENGTH
    ELSE story_info.estimated_length.n

BatchPageData(kind, page_num, theme, options) ==
    [kind |-> kind, page_num |-> page_num, theme |-> theme, options |-> options]

_get_themed_options(theme) ==
    CASE theme = "horror" -> <<Option("ok", "health", -7), Option("ok", "sanity", 3)>>
      [] theme = "mystery" -> <<Option("ok", "health", -2), Option("ok", "sanity", 4)>>
      [] OTHER -> <<Option("ok", "health", -5), Option("ok", "sanity", 3)>>

_create_mock_page(story_info, page_num) ==
    BatchPageData("mock", page_num, story_info.theme, _get_themed_options(story_info.theme))

_create_fallback_page(page_num, theme) ==
    BatchPageData("fallback", page_num, theme,
        CASE theme = "horror" -> <<Option("ok", "health", -6), Option("ok", "sanity", 2)>>
          [] theme = "mystery" -> <<Option("ok", "sanity", 3), Option("ok", "health", -2)>>
          [] OTHER -> <<Option("ok", "health", -4), Option("ok", "sanity", 2)>>)

\* a page answer of the provider
PageAnswer(kind, has_content, options) ==
    [kind |-> kind, has_content |-> has_content, options |-> options]

PlainPageAnswer == PageAnswer("dict", TRUE, Repeat(BaseOption, 2))

\* the answers that do not yield the plain page
OddPageAnswers ==
    {PageAnswer("raise", FALSE, <<>>), PageAnswer("nondict", FALSE, <<>>),
     PageAnswer("dict", FALSE, Repeat(BaseOption, 2))}
    \cup {PageAnswer("dict", TRUE, Repeat(BaseOption, n)) : n \in {0, 1, 4, MaxOptions}}
    \cup {PageAnswer("dict", TRUE, op) :
            op \in {<<Option("ok", "luck", 10), BaseOption>>,
                    <<Option("ok", "none", 11), BaseOption>>,
                    <<BaseOption, Option("nonint", "health", 1)>>,
                    <<BaseOption, Option("partial", "health", 1)>>,
                    <<BaseOption, Option("partial", "health", 1), BaseOption>>,
                    <<BaseOption, Option("nondict", "health", 1)>>}}

\* the canned story of the Claude provider read as a page: it holds
\* page_content, not content
CannedPageAnswer == PageAnswer("dict", FALSE, Repeat(BaseOption, 2))

\* the pages so far that are not the plain remote page
OddCount(pages) ==
    Cardinality({i \in 1..Len(pages) :
        pages[i].kind # "remote" \/ pages[i].options # Repeat(BaseOption, 2)})

PageAnswers(name, pages) ==
    CASE IsMock(name) -> {PlainPageAnswer}
      [] IsClaude(name) -> {CannedPageAnswer}
      [] OTHER -> IF OddCount(pages) < MaxOddPages
                  THEN OddPageAnswers \cup {PlainPageAnswer}
                  ELSE {PlainPageAnswer}

\* the option filter of lines 295-298: mappings holding the four members
HasOptionFields(opt) == opt.kind \in {"ok", "nonint"}

\* BatchOptionData(**opt) raises a ValidationError
BatchOptionDataRaises(opt) ==
    opt.kind = "nonint" \/ opt.amount < -10 \/ opt.amount > 10

\* BatchPageData(content=, options=) raises a ValidationError
BatchPageDataRaises(options) == Len(options) < 2 \/ Len(options) > 4

\* the remote branch of _generate_single_page: a page, or NoValue for None
ConvertedPage(story_info, page_num, result) ==
    IF result.kind # "dict" \/ ~result.has_content THEN NoValue
    ELSE LET options == SelectSeq(result.options, HasOptionFields)
         IN IF \E i \in 1..Len(options) : BatchOptionDataRaises(options[i])
            THEN NoValue
            ELSE IF Len(options) >= 2 /\ ~BatchPageDataRaises(options)
            THEN BatchPageData("remote", page_num, story_info.theme, options)
            ELSE NoValue

_generate_single_page(name, story_info, page_num, result) ==
    IF IsMock(name) THEN _create_mock_page(story_info, page_num)
    ELSE ConvertedPage(story_info, page_num, result)

\* the fallback page is made with the default theme of its parameter
GeneratedPage_default(name, story_info, page_num, result) ==
    LET page_data == _generate_single_page(name, story_info, page_num, result)
    IN IF page_data = NoValue
       THEN _create_fallback_page(page_num, "mystery")
       ELSE page_data

\* one iteration of the loop of _generate_story_pages
GeneratedPage(name, story_info, page_num, result) ==
    LET page_data == _generate_single_page(name, story_info, page_num, result)
    IN IF page_data = NoValue
       THEN _create_fallback_page(page_num, story_info.theme)
       ELSE page_data

BatchStoryResponse(kind, theme, pages, request) ==
    [kind |-> kind, theme |-> theme, pages |-> pages,
     estimated_length |-> Len(pages),
     station_name |-> request.station_name,
     line_number |-> request.line_number]

_create_fallback_complete_story(request) ==
    {BatchStoryResponse("fallback", metadata.theme,
        [k \in 1..FALLBACK_STORY_PAGES |-> _create_fallback_page(k, metadata.theme)],
        request) : metadata \in _create_mock_story_metadata(request)}

BatchStoryResponseRaises_keys(story_info, pages) ==
    \/ ~story_info.complete
    \/ story_info.keywords # "list"

\* building BatchStoryResponse raises: a member of story_info is missing
\* (KeyError) or fails validation, or pages is empty
BatchStoryResponseRaises(story_info, pages) ==
    \/ ~story_info.complete
    \/ story_info.keywords # "list"
    \/ Len(pages) < 1

AssembledResponses_provider(request, story_info, pages) ==
    IF BatchStoryResponseRaises(story_info, pages)
    THEN _create_fallback_complete_story(request)
    ELSE {[BatchStoryResponse("assembled", story_info.theme, pages, request)
              EXCEPT !.station_name = story_info.station_name,
                     !.line_number = story_info.line_number]}

\* step 3 of generate_complete_story and its except branch
AssembledResponses(request, story_info, pages) ==
    IF BatchStoryResponseRaises(story_info, pages)
    THEN _create_fallback_complete_story(request)
    ELSE {BatchStoryResponse("assembled", story_info.theme, pages, request)}

(***************************************************************************)
(* RateLimiter (utils/rate_limiter.py)                                     *)
(***************************************************************************)
WINDOW == 3600
RATE_LIMIT == 100

\* client addresses, the keys of _requests
Clients == {"10.0.0.1", "10.0.0.2"}

\* the times at which the clock is read: calls meet earlier calls that are
\* WINDOW - 1, WINDOW and WINDOW + 1 seconds old
Times == {0, WINDOW - 1, WINDOW, WINDOW + 1}

Recent_short(times, current_time) ==
    LET half_hour_ago == current_time - WINDOW \div 2
        IsRecent(req_time) == req_time > half_hour_ago
    IN SelectSeq(times, IsRecent)

\* [req_time for req_time in self._requests[client_ip] if req_time > hour_ago]
Recent(times, current_time) ==
    LET hour_ago == current_time - WINDOW
        IsRecent(req_time) == req_time > hour_ago
    IN SelectSeq(times, IsRecent)

LimitReached_off(times) == Len(times) > RATE_LIMIT

\* len(self._requests[client_ip]) >= 100
LimitReached(times) == Len(times) >= RATE_LIMIT

\* a plausible slip: the call is recorded and counted before the limit is
\* checked
check_rate_limit_recorded(requests, total, client_ip, current_time) ==
    LET kept == Recent(requests[client_ip], current_time)
    IN [raised |-> IF LimitReached(kept) THEN 429 ELSE 0,
        requests |-> [requests EXCEPT ![client_ip] = Append(kept, current_time)],
        total |-> total + 1]

\* check_rate_limit(client_ip) at current_time on the limiter state
\* (requests, total): the HTTP status it raises (0: it returns True) and the
\* state it leaves.  A client without an entry has the empty list.
check_rate_limit(requests, total, client_ip, current_time) ==
    LET kept == Recent(requests[client_ip], current_time)
    IN IF LimitReached(kept)
       THEN [raised |-> 429,
             requests |-> [requests EXCEPT ![client_ip] = kept],
             total |-> total]
       ELSE [raised |-> 0,
             requests |-> [requests EXCEPT ![client_ip] = Append(kept, current_time)],
             total |-> total + 1]

\* the timestamps a client holds after earlier traffic: none, or
\* RATE_LIMIT - Headroom calls, all accepted at time 0
EarlierTraffic == {<<>>, [i \in 1..(RATE_LIMIT - Headroom) |-> 0]}

(***************************************************************************)
(* POST /generate-complete-story (main.py)                                 *)
(***************************************************************************)
\* the requests in flight at the same time
Slots == {"first", "second"}

\* the bodies sent to the endpoint
CompleteRequests == {request \in BatchStoryRequests : request.station_name = "gangnam"}

request_mode_public(api_key) == "PUBLIC"

\* lines 136-142: the shared secret makes a batch caller
request_mode(api_key) ==
    IF api_key = INTERNAL_API_KEY THEN "BATCH" ELSE "PUBLIC"

\* the stories BatchStoryService.generate_complete_story can return when
\* every page call is answered alike: the metadata step, the theme
\* restriction, the page loop and the assembly
CompleteStories(name, request) ==
    UNION {
        IF story_info.estimated_length.kind = "nonint"
        THEN _create_fallback_complete_story(request)
        ELSE AssembledResponses(request, story_info,
                [k \in 1..TargetLength(story_info) |->
                    GeneratedPage(name, story_info, k,
                        IF IsClaude(name) THEN CannedPageAnswer ELSE PlainPageAnswer)]) :
        story_info \in UNION {RestrictedTheme(request, metadata) :
            metadata \in UNION {_generate_story_metadata(name, request, result) :
                result \in MetadataAnswers(name)}}}

\* the handler's answer to a call of the limiter that raised: the
\* exception is replaced by the fallback story of lines 192-223
RateLimited_absorbed(status) ==
    [kind |-> "response", status |-> 200, exc |-> "", engine_called |-> FALSE,
     response |-> "fallback story"]

\* lines 182-186: except HTTPException: raise
RateLimited(status) == RaisedHTTP(status, FALSE)

(***************************************************************************)
(* validate_story_structure (services/batch_story_service.py, main.py)     *)
(***************************************************************************)
\* required_fields
STORY_FIELDS == <<"story_title", "description", "theme", "keywords", "pages">>

\* the value of story_data["pages"]: a list, null or a number; absent goes
\* with a mapping that does not hold the key
Pages(kind, list) == [kind |-> kind, list |-> list]

\* story_data: a mapping with its keys, its theme ("absent": no key, or
\* null) and its pages, or a value that is no mapping
StoryData(kind, fields, theme, pages) ==
    [kind |-> kind, fields |-> fields, theme |-> theme, pages |-> pages]

AllStoryFields == {STORY_FIELDS[i] : i \in 1..Len(STORY_FIELDS)}

\* a page with content and two full options
PlainPage == PageAnswer("dict", TRUE, Repeat(BaseOption, 2))

\* pages that are remarked on
OddPages ==
    {PageAnswer("nondict", FALSE, <<>>),
     PageAnswer("dict", FALSE, Repeat(BaseOption, 2)),
     PageAnswer("dict", TRUE, Repeat(BaseOption, 1)),
     PageAnswer("dict", TRUE, Repeat(BaseOption, MaxOptions)),
     PageAnswer("dict", TRUE, <<BaseOption, Option("partial", "health", 1)>>),
     PageAnswer("dict", TRUE, <<BaseOption, Option("nondict", "health", 1)>>),
     PageAnswer("dict", TRUE, <<Option("ok", "luck", 10), BaseOption>>),
     PageAnswer("dict", TRUE, <<Option("ok", "none", 11), BaseOption>>)}

\* the values of story_data["pages"] that are sent
PagesSent ==
    {Pages("list", <<>>), Pages("null", <<>>), Pages("number", <<>>)}
    \cup {Pages("list", Repeat(PlainPage, n)) : n \in {1, 3, MaxValidatedPages}}
    \cup {Pages("list", <<page>>) : page \in OddPages}
    \cup {Pages("list", <<PlainPage, page, PlainPage>>) : page \in OddPages}

\* the story_data that are sent: full mappings, mappings lacking a key,
\* the empty mapping that stands for an absent story_data, and values that
\* are no mapping
StoryDataSent ==
    {StoryData("dict", AllStoryFields, theme, pages) :
        theme \in {"mystery", "romance", "absent"},
        pages \in PagesSent}
    \cup {StoryData("dict", AllStoryFields \ {"story_title"}, "mystery", pages) :
            pages \in {Pages("list", <<>>), Pages("list", Repeat(PlainPage, 3))}}
    \cup {StoryData("dict", AllStoryFields \ {"pages"}, theme, Pages("absent", <<>>)) :
            theme \in {"mystery", "romance"}}
    \cup {StoryData("dict", AllStoryFields \ {"theme"}, "absent", pages) :
            pages \in {Pages("list", <<>>), Pages("list", Repeat(PlainPage, 3))}}
    \cup {StoryData("dict", {}, "absent", Pages("absent", <<>>)),
          StoryData("nondict", {}, "absent", Pages("absent", <<>>))}

\* what validate_story_structure returns
ValidationReport(errors, warnings, theme_valid) ==
    [is_valid |-> Len(errors) = 0, errors |-> errors, warnings |-> warnings,
     theme_valid |-> theme_valid]

\* the report of the except branch
ValidationFailed ==
    [is_valid |-> FALSE, errors |-> <<"validation error">>, warnings |-> <<>>,
     theme_valid |-> FALSE]

\* the loop over required_fields
RECURSIVE MissingFieldErrors(_, _)
MissingFieldErrors(fields, i) ==
    IF i > Len(STORY_FIELDS) THEN <<>>
    ELSE (IF STORY_FIELDS[i] \in fields THEN <<>>
          ELSE <<"required field missing: " \o STORY_FIELDS[i]>>)
         \o MissingFieldErrors(fields, i + 1)

NoPages_never(list) == FALSE

\* `not pages`
NoPages(list) == Len(list) = 0

\* the loop over the options of a page
RECURSIVE OptionErrors(_, _)
OptionErrors(options, j) ==
    IF j > Len(options) THEN <<>>
    ELSE (CASE options[j].kind = "nondict" -> <<"option format">>
            [] options[j].kind = "partial" -> <<"option field missing">>
            [] OTHER -> <<>>)
         \o OptionErrors(options, j + 1)

\* the errors of one page
PageErrors(page) ==
    IF page.kind # "dict" THEN <<"page format">>
    ELSE (IF page.has_content THEN <<>> ELSE <<"page content missing">>)
         \o (IF Len(page.options) < 2 THEN <<"too few options">> ELSE <<>>)
         \o OptionErrors(page.options, 1)

\* the warnings of one page
PageWarnings(page) ==
    IF page.kind = "dict" /\ Len(page.options) > 4 THEN <<"too many options">> ELSE <<>>

RECURSIVE AllPageErrors(_, _)
AllPageErrors(list, i) ==
    IF i > Len(list) THEN <<>>
    ELSE PageErrors(list[i]) \o AllPageErrors(list, i + 1)

RECURSIVE AllPageWarnings(_, _)
AllPageWarnings(list, i) ==
    IF i > Len(list) THEN <<>>
    ELSE PageWarnings(list[i]) \o AllPageWarnings(list, i + 1)

\* BatchStoryService.validate_story_structure(story_data)
validate_story_structure(story_data) ==
    IF story_data.kind # "dict" \/ story_data.pages.kind \in {"null", "number"}
    THEN \* a TypeError or AttributeError inside the try block
         ValidationFailed
    ELSE LET list == story_data.pages.list
             errors ==
                MissingFieldErrors(story_data.fields, 1)
                \o (IF ThemeAllowed(story_data.theme) THEN <<>> ELSE <<"theme not allowed">>)
                \o (IF NoPages(list) THEN <<"no pages">> ELSE <<>>)
                \o AllPageErrors(list, 1)
             warnings ==
                (IF ~NoPages(list) /\ Len(list) < 3 THEN <<"few pages">> ELSE <<>>)
                \o (IF Len(list) > 10 THEN <<"many pages">> ELSE <<>>)
                \o AllPageWarnings(list, 1)
         IN ValidationReport(errors, warnings, ThemeAllowed(story_data.theme))

\* the handler of POST /validate-story-structure
validate_story_structure_endpoint(story_data, api_key) ==
    IF api_key # INTERNAL_API_KEY
    THEN RaisedHTTP(403, FALSE)
    ELSE Returned(validate_story_structure(story_data))

(***************************************************************************)
(* State machine                                                           *)
(***************************************************************************)
\* no scoring made, no provider call made, no validation failure counted
StoryStatsIdle ==
    /\ s_quality = NoValue
    /\ s_calls = [generation |-> 0, scoring |-> 0]
    /\ s_json_failures = 0

\* the clock at 0 and no call of the limiter made yet
ClockStarts ==
    /\ now = 0
    /\ rl_calls = 0
    /\ rl_last = NoValue

\* RateLimiter.__init__
LimiterFresh ==
    /\ rl_requests = [c \in Clients |-> <<>>]
    /\ rl_total = 0
    /\ rl_accepted = [c \in Clients |-> <<>>]

\* no request to POST /generate-complete-story in flight
CompleteIdle ==
    /\ e_pc = [slot \in Slots |-> "idle"]
    /\ e_call = [slot \in Slots |-> NoValue]
    /\ e_out = [slot \in Slots |-> NoValue]
    /\ e_count = 0

\* no request to POST /validate-story-structure in flight
ValidationIdle ==
    /\ v_pc = "idle"
    /\ v_call = NoValue
    /\ v_out = NoValue

\* no call of the factory, of the router, of the OpenAI provider or of
\* continue_story is in flight
CallsIdle ==
    /\ f_pc = "idle" /\ f_settings = NoValue /\ f_provider = NoValue
    /\ r_pc = "idle" /\ r_call = NoValue /\ r_status = 0
    /\ o_pc = "idle" /\ o_call = NoValue /\ o_out = NoValue
    /\ c_pc = "idle" /\ c_request = NoValue /\ c_out = NoValue
    /\ c_theme = NoValue /\ c_prompt = NoValue

\* no call of the validator or of the prompt builder is in flight and no
\* conversation is under way
ChecksIdle ==
    /\ j_pc = "idle" /\ j_call = NoValue /\ j_out = NoValue
    /\ w_pc = "idle" /\ w_request = NoValue /\ w_prompt = NoValue
    /\ k_pc = "idle" /\ k_request = NoValue /\ k_response = NoValue /\ k_log = <<>>

ApiIdle ==
    /\ ClockStarts /\ LimiterFresh /\ CompleteIdle /\ ValidationIdle /\ t_calls = <<>>
    /\ StoryStatsIdle
    /\ CallsIdle
    /\ ChecksIdle

\* the services as main.py constructs them, with no request in flight
Init ==
    /\ provider \in ProviderNames
    /\ m_pc = "idle"
    /\ m_request = NoValue
    /\ m_result = NoValue
    /\ m_response = NoValue
    /\ h_pc = "idle"
    /\ h_request = NoValue
    /\ h_key = "no-header"
    /\ h_out = NoValue
    /\ max_retries = DEFAULT_MAX_RETRIES
    /\ min_quality_score = DEFAULT_MIN_QUALITY_SCORE
    /\ s_pc = "idle"
    /\ s_request = NoValue
    /\ s_history = <<>>
    /\ s_draft = NoValue
    /\ s_story = NoValue
    /\ s_response = NoValue
    /\ b_pc = "idle"
    /\ b_request = NoValue
    /\ b_result = NoValue
    /\ b_story_info = NoValue
    /\ b_pages = <<>>
    /\ b_answer = NoValue
    /\ b_response = NoValue
    /\ ApiIdle

\* a caller awaits multiplayer_story_service.generate_next_phase(request)
CallNextPhase ==
    /\ m_pc = "idle"
    /\ \E request \in MultiplayerStoryRequests : m_request' = request
    /\ m_pc' = "called"
    /\ UNCHANGED <<api_vars, b_vars, cfg_vars, m_result, m_response, h_vars, s_vars>>

\* generate_next_phase runs to its return; m_result is what the provider
\* answered (NoValue when the engine made no provider call)
GenerateNextPhase ==
    /\ m_pc = "called"
    /\ IF IsMock(provider)
       THEN /\ m_result' = NoValue
            /\ m_response' \in generate_next_phase(provider, m_request, ClaudeCannedResult)
       ELSE \E result \in PromptResults(provider, m_request) :
            /\ m_result' = result
            /\ m_response' \in generate_next_phase(provider, m_request, result)
    /\ m_pc' = "returned"
    /\ UNCHANGED <<api_vars, b_vars, cfg_vars, m_request, h_vars, s_vars>>

\* the caller takes the response
ReturnNextPhase ==
    /\ m_pc = "returned"
    /\ m_pc' = "idle"
    /\ m_request' = NoValue
    /\ m_result' = NoValue
    /\ m_response' = NoValue
    /\ UNCHANGED <<api_vars, b_vars, cfg_vars, h_vars, s_vars>>

\* a request arrives at POST /llm/multiplayer/next-phase
ReceiveMultiplayer ==
    /\ h_pc = "idle"
    /\ \E request \in MultiplayerStoryRequests, key \in ApiKeys :
        /\ h_request' = request
        /\ h_key' = key
    /\ h_pc' = "received"
    /\ UNCHANGED <<api_vars, b_vars, cfg_vars, m_vars, h_out, s_vars>>

\* the handler generate_multiplayer_story runs to its end
MultiplayerEndpoint ==
    /\ h_pc = "received"
    /\ h_out' \in generate_multiplayer_story(provider, h_request, h_key)
    /\ h_pc' = "answered"
    /\ UNCHANGED <<api_vars, b_vars, cfg_vars, m_vars, h_request, h_key, s_vars>>

\* the answer has left the server
CloseMultiplayer ==
    /\ h_pc = "answered"
    /\ h_pc' = "idle"
    /\ h_request' = NoValue
    /\ h_key' = "no-header"
    /\ h_out' = NoValue
    /\ UNCHANGED <<api_vars, b_vars, cfg_vars, m_vars, s_vars>>

\* a caller awaits StoryService.generate_story(request); the retry loop
\* starts its first attempt
CallGenerateStory ==
    /\ s_pc = "idle"
    /\ \E request \in StoryGenerationRequests : s_request' = request
    /\ s_pc' = "generating"
    /\ UNCHANGED <<api_vars, b_vars, cfg_vars, m_vars, h_vars, s_history, s_draft, s_story, s_response,
                   s_quality, s_calls, s_json_failures>>

FinishStory_retry(history, story_data) ==
    IF Len(history) < max_retries
    THEN /\ s_history' = history
         /\ s_draft' = NoValue
         /\ s_pc' = "generating"
         /\ UNCHANGED <<s_story, s_response>>
    ELSE /\ s_history' = history
         /\ s_draft' = NoValue
         /\ s_story' = story_data
         /\ s_response' = StoryResponse(story_data, s_request)
         /\ s_pc' = "returned"

\* the end of _generate_validated_story and of generate_story
FinishStory(history, story_data) ==
    /\ s_history' = history
    /\ s_draft' = NoValue
    /\ s_story' = story_data
    /\ s_response' = StoryResponse(story_data, s_request)
    /\ s_pc' = "returned"

HasAttemptsLeft_extra(history) == Len(history) <= max_retries

\* `for attempt in range(self.max_retries)`: history holds one entry per
\* attempt made so far
HasAttemptsLeft(history) == Len(history) < max_retries

\* the attempt ended with `continue`: the next attempt starts, or the loop is
\* exhausted and the fallback story is returned
NextAttempt(history) ==
    IF HasAttemptsLeft(history)
    THEN /\ s_history' = history
         /\ s_draft' = NoValue
         /\ s_pc' = "generating"
         /\ UNCHANGED <<s_story, s_response>>
    ELSE FinishStory(history, _create_fallback_story(s_request))

\* how an attempt that failed structural validation is recorded: a mapping
\* without a title, or a draft invalid in another way
InvalidAs(draft) ==
    IF draft.kind = "dict" /\ "story_title" \in draft.missing THEN "untitled" ELSE "invalid"

\* the provider answers the generation call of the running attempt (step 1),
\* and the answer is validated (step 2)
GenerationAnswer ==
    /\ s_pc = "generating"
    /\ \E draft \in GenerationAnswers(provider, s_request) :
        IF draft.kind \in {"raise", "falsy"}
        THEN /\ NextAttempt(Append(s_history, "failed"))
             /\ UNCHANGED s_json_failures
        ELSE IF ~_validate_json_structure(draft)
        THEN /\ NextAttempt(Append(s_history, InvalidAs(draft)))
             /\ s_json_failures' = s_json_failures + 1
        ELSE /\ s_draft' = draft
             /\ s_pc' = "scoring"
             /\ UNCHANGED <<s_history, s_story, s_response, s_json_failures>>
    /\ s_calls' = [s_calls EXCEPT !.generation = @ + 1]
    /\ UNCHANGED <<api_vars, b_vars, cfg_vars, m_vars, h_vars, s_request, s_quality>>

\* the provider answers the scoring call of the running attempt (step 3)
ScoringAnswer ==
    /\ s_pc = "scoring"
    /\ \E result \in ScoreAnswers(provider) :
        LET quality_score == _evaluate_story_quality(result, min_quality_score)
        IN /\ s_quality' = [result |-> result, quality_score |-> quality_score]
           /\ IF quality_score.passed
              THEN FinishStory(Append(s_history, "accepted"),
                               [s_draft EXCEPT !.quality_score = quality_score.total_score,
                                               !.quality_feedback = quality_score.feedback])
              ELSE NextAttempt(Append(s_history, "rejected"))
    /\ s_calls' = [s_calls EXCEPT !.scoring = @ + 1]
    /\ UNCHANGED <<api_vars, b_vars, cfg_vars, m_vars, h_vars, s_request, s_json_failures>>

\* the caller takes the response
ReturnStory ==
    /\ s_pc = "returned"
    /\ s_pc' = "idle"
    /\ s_request' = NoValue
    /\ s_history' = <<>>
    /\ s_draft' = NoValue
    /\ s_story' = NoValue
    /\ s_response' = NoValue
    /\ s_quality' = NoValue
    /\ s_calls' = [generation |-> 0, scoring |-> 0]
    /\ s_json_failures' = 0
    /\ UNCHANGED <<api_vars, b_vars, cfg_vars, m_vars, h_vars>>

\* a caller awaits BatchStoryService.generate_complete_story(request)
CallCompleteStory ==
    /\ b_pc = "idle"
    /\ \E request \in BatchStoryRequests : b_request' = request
    /\ b_pc' = "metadata"
    /\ UNCHANGED <<api_vars, cfg_vars, m_vars, h_vars, s_vars, b_result, b_story_info, b_pages, b_answer, b_response>>

\* the except branch of generate_complete_story
FallbackCompleteStory ==
    /\ b_response' \in _create_fallback_complete_story(b_request)
    /\ b_pc' = "returned"

\* a fallback page ends the loop
ContinuePages_abort(story_info, pages) ==
    /\ b_story_info' = story_info
    /\ b_pages' = pages
    /\ IF Len(pages) < TargetLength(story_info)
          /\ (pages = <<>> \/ pages[Len(pages)].kind # "fallback")
       THEN /\ b_pc' = "pages"
            /\ UNCHANGED b_response
       ELSE /\ b_response' \in AssembledResponses(b_request, story_info, pages)
            /\ b_pc' = "returned"

\* the page loop goes on, or it is over and the response is assembled
ContinuePages(story_info, pages) ==
    /\ b_story_info' = story_info
    /\ b_pages' = pages
    /\ IF Len(pages) < TargetLength(story_info)
       THEN /\ b_pc' = "pages"
            /\ UNCHANGED b_response
       ELSE /\ b_response' \in AssembledResponses(b_request, story_info, pages)
            /\ b_pc' = "returned"

\* step 1: the metadata call is answered; the theme restriction is applied
\* and the page loop starts
MetadataAnswer ==
    /\ b_pc = "metadata"
    /\ \E result \in MetadataAnswers(provider) :
       \E metadata \in _generate_story_metadata(provider, b_request, result) :
       \E story_info \in RestrictedTheme(b_request, metadata) :
         /\ b_result' = IF IsMock(provider) THEN NoValue ELSE result
         /\ IF story_info.estimated_length.kind = "nonint"
            THEN \* range(1, target_length + 1) raises a TypeError
                 /\ FallbackCompleteStory
                 /\ b_story_info' = story_info
                 /\ UNCHANGED b_pages
            ELSE ContinuePages(story_info, <<>>)
    /\ UNCHANGED <<api_vars, cfg_vars, m_vars, h_vars, s_vars, b_request, b_answer>>

\* step 2: the call for the next page is answered
PageAnswered ==
    /\ b_pc = "pages"
    /\ \E result \in PageAnswers(provider, b_pages) :
        /\ ContinuePages(b_story_info,
                Append(b_pages,
                    GeneratedPage(provider, b_story_info, Len(b_pages) + 1, result)))
        /\ b_answer' = IF IsMock(provider) THEN NoValue ELSE result
    /\ UNCHANGED <<api_vars, cfg_vars, m_vars, h_vars, s_vars, b_request, b_result>>

\* the caller takes the response
ReturnCompleteStory ==
    /\ b_pc = "returned"
    /\ b_pc' = "idle"
    /\ b_request' = NoValue
    /\ b_result' = NoValue
    /\ b_story_info' = NoValue
    /\ b_pages' = <<>>
    /\ b_answer' = NoValue
    /\ b_response' = NoValue
    /\ UNCHANGED <<api_vars, cfg_vars, m_vars, h_vars, s_vars>>

\* time passes
Tick ==
    /\ \E t \in Times : t > now /\ now' = t
    /\ UNCHANGED <<cfg_vars, m_vars, h_vars, s_vars, b_vars, e_vars, v_vars, t_calls, x_vars, y_vars,
                   rl_calls, rl_requests, rl_total, rl_accepted, rl_last>>

\* the limiter's part of a step that calls check_rate_limit(client_ip)
LimiterCall(client_ip) ==
    LET out == check_rate_limit(rl_requests, rl_total, client_ip, now)
    IN /\ rl_calls' = rl_calls + 1
       /\ rl_requests' = out.requests
       /\ rl_total' = out.total
       /\ rl_accepted' = IF out.raised = 0
                         THEN [rl_accepted EXCEPT ![client_ip] = Append(@, now)]
                         ELSE rl_accepted
       /\ rl_last' = [client_ip |-> client_ip, time |-> now, raised |-> out.raised]

\* a caller calls rate_limiter.check_rate_limit(client_ip)
CheckRateLimit ==
    /\ rl_calls < MaxCalls
    /\ \E client_ip \in Clients : LimiterCall(client_ip)
    /\ UNCHANGED <<cfg_vars, m_vars, h_vars, s_vars, b_vars, e_vars, v_vars, t_calls, x_vars, y_vars, now>>

\* a request arrives and the handler runs up to its first suspension point
\* (lines 120-164): the request mode, the rate limit of a public caller, and
\* either the 429 leaves the handler or the story service is awaited
ReceiveComplete ==
    /\ e_count < MaxRequests
    /\ e_count' = e_count + 1
    /\ \E slot \in Slots, request \in CompleteRequests,
          api_key \in ApiKeys, client_ip \in Clients :
        LET mode == request_mode(api_key)
            out == check_rate_limit(rl_requests, rl_total, client_ip, now)
            limited == mode = "PUBLIC" /\ out.raised # 0
            call == [request |-> request, api_key |-> api_key, client_ip |-> client_ip,
                     limited_as |-> IF mode = "PUBLIC" THEN {client_ip} ELSE {},
                     raised |-> IF mode = "PUBLIC" THEN out.raised ELSE 0,
                     limiter_unchanged |-> rl_requests' = rl_requests /\ rl_total' = rl_total]
        IN /\ e_pc[slot] = "idle"
           /\ IF mode = "PUBLIC"
              THEN LimiterCall(client_ip)
              ELSE UNCHANGED <<rl_calls, rl_requests, rl_total, rl_accepted, rl_last>>
           /\ e_call' = [e_call EXCEPT ![slot] = call]
           /\ e_pc' = [e_pc EXCEPT ![slot] = IF limited THEN "answered" ELSE "generating"]
           /\ e_out' = [e_out EXCEPT ![slot] =
                            IF limited THEN RateLimited(out.raised) ELSE NoValue]
    /\ UNCHANGED <<cfg_vars, m_vars, h_vars, s_vars, b_vars, v_vars, t_calls, x_vars, y_vars, now>>

\* BatchStoryService.generate_complete_story returns and the handler
\* returns its response (lines 164-180)
GenerateComplete ==
    /\ \E slot \in Slots :
        /\ e_pc[slot] = "generating"
        /\ \E response \in CompleteStories(provider, e_call[slot].request) :
            e_out' = [e_out EXCEPT ![slot] = Returned(response)]
        /\ e_pc' = [e_pc EXCEPT ![slot] = "answered"]
    /\ UNCHANGED <<cfg_vars, m_vars, h_vars, s_vars, b_vars, v_vars, t_calls, x_vars, y_vars, rl_vars, e_call, e_count>>

\* the answer has left the server
CloseComplete ==
    /\ \E slot \in Slots :
        /\ e_pc[slot] = "answered"
        /\ e_pc' = [e_pc EXCEPT ![slot] = "idle"]
        /\ e_call' = [e_call EXCEPT ![slot] = NoValue]
        /\ e_out' = [e_out EXCEPT ![slot] = NoValue]
    /\ UNCHANGED <<cfg_vars, m_vars, h_vars, s_vars, b_vars, v_vars, t_calls, x_vars, y_vars, rl_vars, e_count>>

\* a request to POST /validate-story-structure arrives
ReceiveValidation ==
    /\ v_pc = "idle"
    /\ \E story_data \in StoryDataSent, api_key \in ApiKeys :
        v_call' = [story_data |-> story_data, api_key |-> api_key]
    /\ v_pc' = "received"
    /\ UNCHANGED <<cfg_vars, m_vars, h_vars, s_vars, b_vars, t_calls, x_vars, y_vars, rl_vars, e_vars, v_out>>

\* the handler validate_story_structure runs to its end
ValidationEndpoint ==
    /\ v_pc = "received"
    /\ v_out' = validate_story_structure_endpoint(v_call.story_data, v_call.api_key)
    /\ v_pc' = "answered"
    /\ UNCHANGED <<cfg_vars, m_vars, h_vars, s_vars, b_vars, t_calls, x_vars, y_vars, rl_vars, e_vars, v_call>>

\* the answer has left the server
CloseValidation ==
    /\ v_pc = "answered"
    /\ v_pc' = "idle"
    /\ v_call' = NoValue
    /\ v_out' = NoValue
    /\ UNCHANGED <<cfg_vars, m_vars, h_vars, s_vars, b_vars, t_calls, x_vars, y_vars, rl_vars, e_vars>>

\* a caller calls _get_fallback_theme(station_name)
GetFallbackTheme ==
    /\ Len(t_calls) < MaxThemeCalls
    /\ \E station_name \in Stations :
       \E theme \in _get_fallback_theme(station_name) :
          t_calls' = Append(t_calls, [station_name |-> station_name, theme |-> theme])
    /\ UNCHANGED <<cfg_vars, m_vars, h_vars, s_vars, b_vars, rl_vars, e_vars, v_vars, x_vars, y_vars>>

(***************************************************************************)
(* LLMProviderFactory (providers/llm_provider.py)                          *)
(***************************************************************************)
\* the values of AI_PROVIDER
AIProviders == {"openai", "OpenAI", "claude", "mock", "gemini"}

\* the values of a credential: unset, set, a blank
Credentials == {"", "sk-1", " "}

\* what the factory reads: config.settings imports or not, AI_PROVIDER and
\* the two credentials (of Settings, or of the environment)
FactorySettings ==
    [importable : BOOLEAN, AI_PROVIDER : AIProviders,
     OPENAI_API_KEY : Credentials, CLAUDE_API_KEY : Credentials]

\* str.lower() on the values of AI_PROVIDER
lower(name) == IF name = "OpenAI" THEN "openai" ELSE name

\* the truth value of a string
Truthy(string) == string # ""

\* OpenAIProvider.is_available and ClaudeProvider.is_available: aiohttp is
\* imported at module level, so only the key decides
is_available(api_key) == Truthy(api_key) /\ api_key # ""

\* the except ImportError branch: the environment is read directly
get_provider_env(settings) ==
    LET provider_name == lower(settings.AI_PROVIDER)
    IN IF provider_name = "openai" /\ Truthy(settings.OPENAI_API_KEY)
       THEN "OpenAIProvider"
       ELSE IF provider_name = "claude" /\ Truthy(settings.CLAUDE_API_KEY)
       THEN "ClaudeProvider"
       ELSE "MockProvider"

\* LLMProviderFactory.get_provider(): the class of the provider returned
get_provider(settings) ==
    LET provider_name == lower(settings.AI_PROVIDER)
    IN IF ~settings.importable THEN get_provider_env(settings)
       ELSE IF provider_name = "openai" /\ Truthy(settings.OPENAI_API_KEY)
       THEN IF is_available(settings.OPENAI_API_KEY)
            THEN "OpenAIProvider" ELSE "MockProvider"
       ELSE IF provider_name = "claude" /\ Truthy(settings.CLAUDE_API_KEY)
       THEN IF is_available(settings.CLAUDE_API_KEY)
            THEN "ClaudeProvider" ELSE "MockProvider"
       ELSE "MockProvider"

\* a service is constructed and asks the factory for its provider
CallGetProvider ==
    /\ f_pc = "idle"
    /\ \E settings \in FactorySettings : f_settings' = settings
    /\ f_pc' = "called"
    /\ UNCHANGED <<cfg_vars, m_vars, h_vars, s_vars, b_vars, rl_vars, e_vars, v_vars,
                   t_calls, y_vars, r_vars, o_vars, c_vars, f_provider>>

\* the factory returns
ReturnProvider ==
    /\ f_pc = "called"
    /\ f_provider' = get_provider(f_settings)
    /\ f_pc' = "returned"
    /\ UNCHANGED <<cfg_vars, m_vars, h_vars, s_vars, b_vars, rl_vars, e_vars, v_vars,
                   t_calls, y_vars, r_vars, o_vars, c_vars, f_settings>>

\* the service keeps the provider; the next service is constructed
KeepProvider ==
    /\ f_pc = "returned"
    /\ f_pc' = "idle"
    /\ f_settings' = NoValue
    /\ f_provider' = NoValue
    /\ UNCHANGED <<cfg_vars, m_vars, h_vars, s_vars, b_vars, rl_vars, e_vars, v_vars,
                   t_calls, y_vars, r_vars, o_vars, c_vars>>

NextFactory == CallGetProvider \/ ReturnProvider \/ KeepProvider
SpecFactory == Init /\ [][NextFactory]_vars

(***************************************************************************)
(* The routes of the application (main.py)                                 *)
(***************************************************************************)
\* the path operations main.py declares: method, path and the kind of body
\* the handler's signature asks for ("model": a pydantic model with required
\* members, "dict": any JSON object, "none": no body)
Routes ==
    {[method |-> "GET", path |-> "/", body |-> "none"],
     [method |-> "GET", path |-> "/health", body |-> "none"],
     [method |-> "GET", path |-> "/providers", body |-> "none"],
     [method |-> "POST", path |-> "/generate-complete-story", body |-> "model"],
     [method |-> "POST", path |-> "/llm/multiplayer/next-phase", body |-> "model"],
     [method |-> "POST", path |-> "/validate-story-structure", body |-> "dict"],
     [method |-> "GET", path |-> "/batch/system-status", body |-> "none"],
     [method |-> "POST", path |-> "/test-provider", body |-> "dict"],
     [method |-> "GET", path |-> "/config", body |-> "none"]}

Methods == {"GET", "POST", "PUT", "DELETE"}

\* the paths requested: the declared ones and three others
Paths ==
    {route.path : route \in Routes}
        \cup {"/generate-story", "/continue-story", "/invalid-endpoint-12345"}

\* the JSON body sent: none, the empty object {}, an object that holds every
\* member the route requires
Bodies == {"absent", "empty", "complete"}

HttpRequests == [method : Methods, path : Paths, body : Bodies]

\* request validation of the body against the handler's signature
BodyAccepted(kind, body) ==
    CASE kind = "none" -> TRUE
      [] kind = "dict" -> body \in {"empty", "complete"}
      [] OTHER -> body = "complete"

\* the status the router answers with before any handler runs: 404 when no
\* route has the path, 405 when none of the routes of the path has the
\* method, 422 when the body fails validation; 0 when the handler runs
RouterStatus(request) ==
    LET same_path == {route \in Routes : route.path = request.path}
        matched == {route \in same_path : route.method = request.method}
    IN IF same_path = {} THEN 404
       ELSE IF matched = {} THEN 405
       ELSE IF \E route \in matched : ~BodyAccepted(route.body, request.body) THEN 422
       ELSE 0

\* a client sends a request
SendRequest ==
    /\ r_pc = "idle"
    /\ \E request \in HttpRequests : r_call' = request
    /\ r_pc' = "sent"
    /\ UNCHANGED <<cfg_vars, m_vars, h_vars, s_vars, b_vars, rl_vars, e_vars, v_vars,
                   t_calls, y_vars, f_vars, o_vars, c_vars, r_status>>

\* the router answers it or hands it to the handler
RouteRequest ==
    /\ r_pc = "sent"
    /\ r_status' = RouterStatus(r_call)
    /\ r_pc' = "answered"
    /\ UNCHANGED <<cfg_vars, m_vars, h_vars, s_vars, b_vars, rl_vars, e_vars, v_vars,
                   t_calls, y_vars, f_vars, o_vars, c_vars, r_call>>

\* the client takes the answer
CloseRequest ==
    /\ r_pc = "answered"
    /\ r_pc' = "idle"
    /\ r_call' = NoValue
    /\ r_status' = 0
    /\ UNCHANGED <<cfg_vars, m_vars, h_vars, s_vars, b_vars, rl_vars, e_vars, v_vars,
                   t_calls, y_vars, f_vars, o_vars, c_vars>>

NextRouter == SendRequest \/ RouteRequest \/ CloseRequest
SpecRouter == Init /\ [][NextRouter]_vars

(***************************************************************************)
(* OpenAIProvider.generate_story (providers/llm_provider.py)               *)
(***************************************************************************)
\* how the POST to the API ends: a timeout, an aiohttp.ClientError, or a
\* response
Transports == {"timeout", "client_error", "response"}

\* the HTTP status of a response
Statuses == {200, 401, 500}

\* the body of a 200 response: no JSON, a JSON list, an object without
\* choices, with an empty choices list, with a first choice that holds no
\* message, or with choices[0].message.content
ResponseBodies ==
    {"not_json", "list", "no_choices", "empty_choices", "no_message", "content"}

\* choices[0].message.content: null, a text that is no JSON, a JSON object
\* without or with station_name, a JSON list, a JSON number
Contents == {"null", "invalid_json", "object", "object_with_station", "list", "number"}

\* one call: the provider's key, what the transport does, and whether the
\* keyword arguments hold station_name
OpenAICalls ==
    [api_key : {"", "sk-1"}, transport : Transports, status : Statuses,
     body : ResponseBodies, content : Contents, has_station : BOOLEAN]

\* the call raised; exc names the exception or the message of the Exception
ProviderRaised(exc) == [kind |-> "raise", exc |-> exc, value |-> "", station_name |-> ""]

\* the call returned a mapping: the parsed content or the fallback story
ProviderReturned(value, station_name) ==
    [kind |-> "return", exc |-> "", value |-> value, station_name |-> station_name]

\* context.get('station_name', '강남')
ContextStation(call) == IF call.has_station THEN "jamsil" ELSE "gangnam"

OpenAIFallback(call) == ProviderReturned("fallback", ContextStation(call))

\* json.loads(content) yields a value
IsJson(content) == content \in {"object", "object_with_station", "list", "number"}

\* _parse_response(content, context): the except clause names
\* json.JSONDecodeError only
_parse_response(call) ==
    CASE ~IsJson(call.content) -> OpenAIFallback(call)
      [] call.content = "object_with_station" -> ProviderReturned("parsed", "seoul")
      [] call.content = "object" -> ProviderReturned("parsed", ContextStation(call))
      \* data.keys() and data["station_name"] = ... on a list or a number
      [] OTHER -> ProviderRaised("AttributeError")

\* the branch `if response.status == 200` of generate_story, inside the try
OkResponse(call) ==
    CASE call.body = "not_json" -> {ProviderRaised("client_error"), ProviderRaised("call_failed")}
      \* result.get on a list
      [] call.body = "list" -> {ProviderRaised("call_failed")}
      [] call.body \in {"no_choices", "empty_choices"} -> {OpenAIFallback(call)}
      \* result["choices"][0]["message"] raises KeyError
      [] call.body = "no_message" -> {ProviderRaised("call_failed")}
      \* len(content) on None
      [] call.body = "content" /\ call.content = "null" -> {ProviderRaised("call_failed")}
      \* parsed_content.keys() on a list or a number
      [] call.body = "content" /\ call.content \in {"list", "number"} ->
            {ProviderRaised("call_failed")}
      [] OTHER -> {IF _parse_response(call).kind = "raise"
                   THEN ProviderRaised("call_failed") ELSE _parse_response(call)}

\* OpenAIProvider.generate_story(prompt, **kwargs): what it returns or raises
generate_story(call) ==
    IF ~is_available(call.api_key) THEN {ProviderRaised("ValueError")}
    ELSE CASE call.transport = "timeout" -> {ProviderRaised("timeout")}
           [] call.transport = "client_error" -> {ProviderRaised("client_error")}
           \* raise Exception("OpenAI API 오류") is caught by except Exception
           [] call.transport = "response" /\ call.status # 200 ->
                {ProviderRaised("call_failed")}
           [] OTHER -> OkResponse(call)

\* a pipeline awaits provider.generate_story
CallOpenAI ==
    /\ o_pc = "idle"
    /\ \E call \in OpenAICalls : o_call' = call
    /\ o_pc' = "called"
    /\ UNCHANGED <<cfg_vars, m_vars, h_vars, s_vars, b_vars, rl_vars, e_vars, v_vars,
                   t_calls, y_vars, f_vars, r_vars, c_vars, o_out>>

\* the call returns or raises
OpenAIAnswer ==
    /\ o_pc = "called"
    /\ o_out' \in generate_story(o_call)
    /\ o_pc' = "returned"
    /\ UNCHANGED <<cfg_vars, m_vars, h_vars, s_vars, b_vars, rl_vars, e_vars, v_vars,
                   t_calls, y_vars, f_vars, r_vars, c_vars, o_call>>

\* the pipeline takes the outcome
TakeOpenAI ==
    /\ o_pc = "returned"
    /\ o_pc' = "idle"
    /\ o_call' = NoValue
    /\ o_out' = NoValue
    /\ UNCHANGED <<cfg_vars, m_vars, h_vars, s_vars, b_vars, rl_vars, e_vars, v_vars,
                   t_calls, y_vars, f_vars, r_vars, c_vars>>

NextOpenAI == CallOpenAI \/ OpenAIAnswer \/ TakeOpenAI
SpecOpenAI == Init /\ [][NextOpenAI]_vars

(***************************************************************************)
(* StoryService.continue_story (services/story_service.py)                 *)
(***************************************************************************)
StoryContinueRequests ==
    [station_name : Stations, line_number : {1, 4}, previous_choice : {"brave", "other"}]

\* what provider.generate_story does for the continuation prompt: the
\* factory hands out available providers only, and the context holds
\* station_name
ContinuationOutcomes(name) ==
    IF IsClaude(name) THEN {ProviderReturned("fallback", "jamsil")}
    ELSE UNION {generate_story(call) :
                    call \in {c \in OpenAICalls : c.api_key = "sk-1" /\ c.has_station}}

StoryContinueResponse(from) == [kind |-> "response", exc |-> "", from |-> from]

\* continue_story ended in an exception
ContinueRaised(exc) == [kind |-> "raise", exc |-> exc, from |-> ""]

\* continue_story(request): no try block surrounds the provider call or the
\* reads of continuation_data; has_members: the parsed content holds
\* page_content and options
continue_story(name, outcome, has_members) ==
    IF IsMock(name) THEN StoryContinueResponse("mock")
    ELSE IF outcome.kind = "raise" THEN ContinueRaised(outcome.exc)
    ELSE IF outcome.value = "parsed" /\ ~has_members THEN ContinueRaised("KeyError")
    ELSE StoryContinueResponse(outcome.value)

\* the context continue_story builds from the request: the members of the
\* request, none of which is a theme
ContinuationContext(request) ==
    [station_name |-> request.station_name,
     line_number |-> request.line_number,
     previous_choice |-> request.previous_choice]

\* the continuation prompt: what it names; current_theme is
\* context.get('theme') with the default
_create_continuation_user_prompt(context) ==
    [kind |-> "continuation",
     previous_choice |-> context.previous_choice,
     station_name |-> context.station_name,
     line_number |-> context.line_number,
     current_theme |-> IF "theme" \in DOMAIN context THEN context.theme ELSE "mystery"]

create_user_prompt(context, prompt_type) ==
    IF prompt_type = "continuation" THEN _create_continuation_user_prompt(context)
    ELSE NoValue

\* a caller awaits StoryService.continue_story(request) for a story that was
\* generated with one of the allowed themes
CallContinueStory ==
    /\ c_pc = "idle"
    /\ \E request \in StoryContinueRequests : c_request' = request
    /\ c_theme' \in ALLOWED_THEMES
    /\ c_pc' = "called"
    /\ UNCHANGED <<cfg_vars, m_vars, h_vars, s_vars, b_vars, rl_vars, e_vars, v_vars,
                   t_calls, y_vars, f_vars, r_vars, o_vars, c_out, c_prompt>>

\* the continuation is generated and the call returns or raises
ContinueAnswer ==
    /\ c_pc = "called"
    /\ \E outcome \in ContinuationOutcomes(provider), has_members \in BOOLEAN :
            c_out' = continue_story(provider, outcome, has_members)
    /\ c_prompt' = IF IsMock(provider) THEN NoValue
                   ELSE create_user_prompt(ContinuationContext(c_request), "continuation")
    /\ c_pc' = "returned"
    /\ UNCHANGED <<cfg_vars, m_vars, h_vars, s_vars, b_vars, rl_vars, e_vars, v_vars,
                   t_calls, y_vars, f_vars, r_vars, o_vars, c_request, c_theme>>

\* the caller takes the outcome
ReturnContinue ==
    /\ c_pc = "returned"
    /\ c_pc' = "idle"
    /\ c_request' = NoValue
    /\ c_out' = NoValue
    /\ c_theme' = NoValue
    /\ c_prompt' = NoValue
    /\ UNCHANGED <<cfg_vars, m_vars, h_vars, s_vars, b_vars, rl_vars, e_vars, v_vars,
                   t_calls, y_vars, f_vars, r_vars, o_vars>>

NextContinue == CallContinueStory \/ ContinueAnswer \/ ReturnContinue
SpecContinue == Init /\ [][NextContinue]_vars

(***************************************************************************)
(* StoryService._validate_json_structure as a call of its own              *)
(***************************************************************************)
\* the candidates handed to the validator: what a provider can answer to the
\* generation prompt for one request, each with options that are a list, a
\* mapping, null or a number; and values that are no mapping
ValidatorContext == [station_name |-> "gangnam", line_number |-> 2]

CandidateDrafts ==
    RemoteDrafts(ValidatorContext)
        \cup {_fallback_response(ValidatorContext), MockStory("gangnam")}
        \cup {Draft("dict", {"story_title", "options"}, TRUE, "horror", <<>>, "gangnam", 2),
              Draft("nondict", {}, TRUE, "", <<>>, "gangnam", 2)}

Candidates == [story_data : CandidateDrafts, options_type : {"list", "dict", "null", "number"}]

\* ValidationResult(is_valid=, errors=); fixed_json keeps its default None.
\* story_data: the candidate as the call leaves it
JsonValidationResult(is_valid, errors, story_data) ==
    [is_valid |-> is_valid, errors |-> errors, fixed_json |-> NoValue,
     story_data |-> story_data]

\* the whole of _validate_json_structure: the error list of the try block,
\* or the except branch when a read raises (story_data.get on a value that
\* is no mapping, len(options) on null or a number)
ValidateCandidate(candidate) ==
    LET story_data == candidate.story_data
        present == "options" \notin story_data.missing
    IN IF story_data.kind # "dict"
       THEN JsonValidationResult(FALSE, {<<"exception", 0>>}, story_data)
       ELSE IF present /\ candidate.options_type \in {"null", "number"}
       THEN JsonValidationResult(FALSE, {<<"exception", 0>>}, story_data)
       ELSE IF present /\ candidate.options_type = "dict"
       THEN \* not a list: the count error, and every key is no mapping
            JsonValidationResult(FALSE,
                {<<"missing", f>> : f \in story_data.missing}
                    \cup {<<"count", Len(story_data.options)>>}
                    \cup {<<"format", i>> : i \in 1..Len(story_data.options)},
                story_data)
       ELSE JsonValidationResult(ValidationErrors(story_data) = {},
                                 ValidationErrors(story_data), story_data)

\* a pipeline calls _validate_json_structure(story_data)
CallValidate ==
    /\ j_pc = "idle"
    /\ \E candidate \in Candidates : j_call' = candidate
    /\ j_pc' = "called"
    /\ UNCHANGED <<cfg_vars, m_vars, h_vars, s_vars, b_vars, rl_vars, e_vars, v_vars,
                   t_calls, x_vars, w_vars, k_vars, j_out>>

\* the validator returns its result
ValidateAnswer ==
    /\ j_pc = "called"
    /\ j_out' = ValidateCandidate(j_call)
    /\ j_pc' = "returned"
    /\ UNCHANGED <<cfg_vars, m_vars, h_vars, s_vars, b_vars, rl_vars, e_vars, v_vars,
                   t_calls, x_vars, w_vars, k_vars, j_call>>

\* the pipeline takes the result
TakeValidation ==
    /\ j_pc = "returned"
    /\ j_pc' = "idle"
    /\ j_call' = NoValue
    /\ j_out' = NoValue
    /\ UNCHANGED <<cfg_vars, m_vars, h_vars, s_vars, b_vars, rl_vars, e_vars, v_vars,
                   t_calls, x_vars, w_vars, k_vars>>

NextValidator == CallValidate \/ ValidateAnswer \/ TakeValidation
SpecValidator == Init /\ [][NextValidator]_vars

(***************************************************************************)
(* MultiplayerStoryService._build_story_prompt as a call of its own        *)
(***************************************************************************)
CHAT_WINDOW == 20

ChatHistoryItem(name, content) == [character_name |-> name, content |-> content]

\* a stack of n messages, numbered from first + 1 in the order they were
\* said, by two characters in turn
MessageStack(n, first) == [i \in 1..n |-> ChatHistoryItem((i % 2) + 1, first + i)]

MessageStacks == {MessageStack(n, first) : n \in 0..MaxMessages, first \in {0, 50}}

StoryPromptRequests ==
    [phase : {1, ENDING_PHASE}, station_name : {"gangnam"}, message_stack : MessageStacks]

\* f"{msg.character_name}: {msg.content}"
ChatLine(msg) == <<msg.character_name, ": ", msg.content>>

\* a plausible slip: the first CHAT_WINDOW messages, message_stack[:20]
RecentMessages_first(stack) ==
    SubSeq(stack, 1, IF Len(stack) > CHAT_WINDOW THEN CHAT_WINDOW ELSE Len(stack))

\* request.message_stack[-20:]
RecentMessages(stack) ==
    SubSeq(stack, IF Len(stack) > CHAT_WINDOW THEN Len(stack) - CHAT_WINDOW + 1 ELSE 1,
           Len(stack))

\* the text that stands for an empty stack
NoConversation == [kind |-> "placeholder", lines |-> <<>>]

\* chat_history of _build_story_prompt: the lines that are joined, or the
\* placeholder for a stack that is empty
ChatHistory(stack) ==
    IF stack = <<>> THEN NoConversation
    ELSE LET recent == RecentMessages(stack)
         IN [kind |-> "lines", lines |-> [i \in 1..Len(recent) |-> ChatLine(recent[i])]]

\* the prompt, by what it embeds of the request
_build_story_prompt(request) ==
    [station_name |-> request.station_name,
     phase |-> request.phase,
     chat_history |-> ChatHistory(request.message_stack)]

\* _generate_story is about to build the prompt for a request
CallBuildStoryPrompt ==
    /\ w_pc = "idle"
    /\ \E request \in StoryPromptRequests : w_request' = request
    /\ w_pc' = "called"
    /\ UNCHANGED <<cfg_vars, m_vars, h_vars, s_vars, b_vars, rl_vars, e_vars, v_vars,
                   t_calls, x_vars, j_vars, k_vars, w_prompt>>

\* the prompt is built
BuildStoryPrompt ==
    /\ w_pc = "called"
    /\ w_prompt' = _build_story_prompt(w_request)
    /\ w_pc' = "returned"
    /\ UNCHANGED <<cfg_vars, m_vars, h_vars, s_vars, b_vars, rl_vars, e_vars, v_vars,
                   t_calls, x_vars, j_vars, k_vars, w_request>>

\* the prompt goes to the provider
SendStoryPrompt ==
    /\ w_pc = "returned"
    /\ w_pc' = "idle"
    /\ w_request' = NoValue
    /\ w_prompt' = NoValue
    /\ UNCHANGED <<cfg_vars, m_vars, h_vars, s_vars, b_vars, rl_vars, e_vars, v_vars,
                   t_calls, x_vars, j_vars, k_vars>>

NextStoryPrompt == CallBuildStoryPrompt \/ BuildStoryPrompt \/ SendStoryPrompt
SpecStoryPrompt == Init /\ [][NextStoryPrompt]_vars

(***************************************************************************)
(* A conversation with generate_next_phase on the mock path                *)
(***************************************************************************)
\* what the caller keeps of one call: the phase and outline it sent, and the
\* phase, is_ending and outline of the response
LogEntry(request, response) ==
    [sent |-> request.phase, sent_outline |-> request.story_outline,
     is_intro |-> request.is_intro,
     phase |-> response.phase, is_ending |-> response.is_ending,
     outline |-> response.story_outline]

\* the caller opens a conversation with an intro request
StartConversation ==
    /\ k_pc = "idle"
    /\ \E request \in MultiplayerStoryRequests :
        /\ request.is_intro
        /\ request.story_outline = None
        /\ request.phase \in {0, MaxPhase}
        /\ Len(request.participants) <= MaxTalkers
        /\ k_request' = request
    /\ k_pc' = "calling"
    /\ UNCHANGED <<cfg_vars, m_vars, h_vars, s_vars, b_vars, rl_vars, e_vars, v_vars,
                   t_calls, x_vars, j_vars, w_vars, k_response, k_log>>

\* generate_next_phase answers through _create_mock_response: the provider
\* is the mock provider, or the remote provider fails
ServeConversation ==
    /\ k_pc = "calling"
    /\ \E result \in IF IsMock(provider) THEN {ClaudeCannedResult} ELSE FailedResults :
        \E response \in generate_next_phase(provider, k_request, result) :
            /\ k_response' = response
            /\ k_log' = Append(k_log, LogEntry(k_request, response))
            /\ k_pc' = IF response.is_ending THEN "ended" ELSE "answered"
    /\ UNCHANGED <<cfg_vars, m_vars, h_vars, s_vars, b_vars, rl_vars, e_vars, v_vars,
                   t_calls, x_vars, j_vars, w_vars, k_request>>

\* the caller sends the phase of the response and the outline of the intro
NextCall ==
    /\ k_pc = "answered"
    /\ k_request' = [k_request EXCEPT !.phase = k_response.phase,
                                      !.story_outline = k_log[1].outline,
                                      !.is_intro = FALSE]
    /\ k_pc' = "calling"
    /\ UNCHANGED <<cfg_vars, m_vars, h_vars, s_vars, b_vars, rl_vars, e_vars, v_vars,
                   t_calls, x_vars, j_vars, w_vars, k_response, k_log>>

\* the caller leaves the conversation that has ended
CloseConversation ==
    /\ k_pc = "ended"
    /\ k_pc' = "idle"
    /\ k_request' = NoValue
    /\ k_response' = NoValue
    /\ k_log' = <<>>
    /\ UNCHANGED <<cfg_vars, m_vars, h_vars, s_vars, b_vars, rl_vars, e_vars, v_vars,
                   t_calls, x_vars, j_vars, w_vars>>

\* the providers that can serve a whole conversation through
\* _create_mock_response
InitConversation == Init /\ ~IsClaude(provider)

NextConversation ==
    StartConversation \/ ServeConversation \/ NextCall \/ CloseConversation

\* every call is answered, and the caller goes on until the ending
SpecConversation ==
    /\ InitConversation
    /\ [][NextConversation]_vars
    /\ WF_vars(ServeConversation)
    /\ WF_vars(NextCall)

NextEngine == CallNextPhase \/ GenerateNextPhase \/ ReturnNextPhase
SpecEngine == Init /\ [][NextEngine]_vars

NextEndpoint == ReceiveMultiplayer \/ MultiplayerEndpoint \/ CloseMultiplayer
SpecEndpoint == Init /\ [][NextEndpoint]_vars

\* StoryService(min_quality_score, max_retries) constructed with a retry
\* budget of the caller's choice
InitStory ==
    /\ provider \in ProviderNames
    /\ max_retries \in 1..MaxRetriesConfig
    /\ min_quality_score \in MinScoresConfig
    /\ m_pc = "idle" /\ m_request = NoValue /\ m_result = NoValue /\ m_response = NoValue
    /\ h_pc = "idle" /\ h_request = NoValue /\ h_key = "no-header" /\ h_out = NoValue
    /\ s_pc = "idle" /\ s_request = NoValue /\ s_history = <<>>
    /\ s_draft = NoValue /\ s_story = NoValue /\ s_response = NoValue
    /\ b_pc = "idle" /\ b_request = NoValue /\ b_result = NoValue /\ b_story_info = NoValue
    /\ b_pages = <<>> /\ b_answer = NoValue /\ b_response = NoValue
    /\ ApiIdle

NextStory == CallGenerateStory \/ GenerationAnswer \/ ScoringAnswer \/ ReturnStory
SpecStory == InitStory /\ [][NextStory]_vars

\* every awaited provider call returns or raises: the remote providers
\* bound each request by a timeout
SpecStoryLive ==
    /\ SpecStory
    /\ WF_vars(GenerationAnswer)
    /\ WF_vars(ScoringAnswer)

NextBatch == CallCompleteStory \/ MetadataAnswer \/ PageAnswered \/ ReturnCompleteStory
SpecBatch == Init /\ [][NextBatch]_vars

\* the limiter with earlier traffic of some clients, all of it at time 0
InitLimiter ==
    /\ provider = MockProviderName
    /\ max_retries = DEFAULT_MAX_RETRIES
    /\ min_quality_score = DEFAULT_MIN_QUALITY_SCORE
    /\ m_pc = "idle" /\ m_request = NoValue /\ m_result = NoValue /\ m_response = NoValue
    /\ h_pc = "idle" /\ h_request = NoValue /\ h_key = "no-header" /\ h_out = NoValue
    /\ s_pc = "idle" /\ s_request = NoValue /\ s_history = <<>>
    /\ s_draft = NoValue /\ s_story = NoValue /\ s_response = NoValue
    /\ b_pc = "idle" /\ b_request = NoValue /\ b_result = NoValue /\ b_story_info = NoValue
    /\ b_pages = <<>> /\ b_answer = NoValue /\ b_response = NoValue
    /\ ClockStarts
    /\ CompleteIdle
    /\ ValidationIdle
    /\ t_calls = <<>>
    /\ StoryStatsIdle
    /\ CallsIdle
    /\ ChecksIdle
    /\ rl_requests \in [Clients -> EarlierTraffic]
    /\ rl_total = Len(rl_requests["10.0.0.1"]) + Len(rl_requests["10.0.0.2"])
    /\ rl_accepted = rl_requests

\* the four pipelines that call a provider.  They share no state, so each
\* call is followed from its start to its return while the others rest.
StoryResting == s_pc = "idle"
BatchResting == b_pc = "idle"
EngineResting == m_pc = "idle"
ContinueResting == c_pc = "idle"

NextPipelines ==
    \/ BatchResting /\ EngineResting /\ ContinueResting /\ NextStory
    \/ StoryResting /\ EngineResting /\ ContinueResting /\ NextBatch
    \/ StoryResting /\ BatchResting /\ ContinueResting /\ NextEngine
    \/ StoryResting /\ BatchResting /\ EngineResting /\ NextContinue
SpecPipelines == Init /\ [][NextPipelines]_vars

NextLimiter == Tick \/ CheckRateLimit
SpecLimiter == InitLimiter /\ [][NextLimiter]_vars

\* _get_fallback_theme called over and over
NextTheme == GetFallbackTheme
SpecTheme == Init /\ [][NextTheme]_vars

NextValidation == ReceiveValidation \/ ValidationEndpoint \/ CloseValidation
SpecValidation == Init /\ [][NextValidation]_vars

\* the two endpoints that demand the shared secret
NextPrivileged == NextEndpoint \/ NextValidation
SpecPrivileged == Init /\ [][NextPrivileged]_vars

\* the endpoint serving concurrent requests of clients with earlier traffic
NextComplete == Tick \/ ReceiveComplete \/ GenerateComplete \/ CloseComplete
SpecComplete == InitLimiter /\ [][NextComplete]_vars

(***************************************************************************)
(* Properties of RateLimiter                                               *)
(***************************************************************************)
\* how many of the accepted calls in history are newer than WINDOW seconds at time
NewerThanWindow(history, time) ==
    Cardinality({i \in 1..Len(history) : time - history[i] < WINDOW})

\* the calls of the last caller that were accepted before its last call
AcceptedBefore ==
    LET history == rl_accepted[rl_last.client_ip]
    IN IF rl_last.raised = 0 THEN SubSeq(history, 1, Len(history) - 1) ELSE history

\* C12: for a fixed client, check_rate_limit accepts a call if and only if
\* fewer than 100 of that client's previously accepted calls are newer than
\* 3600 seconds; otherwise it raises HTTPException 429.  So the 101st call of
\* a rolling hour is rejected, and the client is accepted again once the
\* earlier accepted calls are 3600 seconds old or older.
C12_AcceptsIffBelowLimit ==
    rl_last # NoValue =>
        /\ rl_last.raised \in {0, 429}
        /\ rl_last.raised = 0 <=> NewerThanWindow(AcceptedBefore, rl_last.time) < RATE_LIMIT

\* a client reached the limit, had its 101st call of the hour rejected, and
\* was accepted again after the hour had passed
C12_Witness ==
    /\ rl_last # NoValue
    /\ rl_last.raised = 0
    /\ Len(AcceptedBefore) = RATE_LIMIT
    /\ NewerThanWindow(AcceptedBefore, rl_last.time) = 0
    /\ rl_calls = Headroom + 2
    /\ \A c \in Clients \ {rl_last.client_ip} : Len(rl_accepted[c]) \in {0, RATE_LIMIT - Headroom}

\* the step is a call of check_rate_limit that was rejected
RejectedCall == rl_calls' = rl_calls + 1 /\ rl_last'.raised = 429

\* the timestamps in a list
Stamps(times) == {times[i] : i \in 1..Len(times)}

\* the accepted calls of all clients
AcceptedCalls == Len(rl_accepted["10.0.0.1"]) + Len(rl_accepted["10.0.0.2"])

\* C40: a call of check_rate_limit that is rejected with 429 records no
\* timestamp (the client's list gets no longer and holds no new timestamp,
\* the other clients' lists are left alone) and leaves _total_requests
\* unchanged; _total_requests always equals the number of accepted calls
\* over all clients.
C40_RejectedCallLeavesNoTrace ==
    /\ [](rl_total = AcceptedCalls)
    /\ [][RejectedCall =>
            /\ rl_total' = rl_total
            /\ rl_accepted' = rl_accepted
            /\ \A c \in Clients :
                /\ Len(rl_requests'[c]) <= Len(rl_requests[c])
                /\ Stamps(rl_requests'[c]) \subseteq Stamps(rl_requests[c])
                /\ c # rl_last'.client_ip => rl_requests'[c] = rl_requests[c]]_vars

\* a client at the limit was rejected while the other client had been
\* accepted: the total counts the accepted calls only
C40_Witness ==
    /\ rl_last # NoValue
    /\ rl_last.raised = 429
    /\ Len(rl_requests[rl_last.client_ip]) = RATE_LIMIT
    /\ rl_calls = Headroom + 2
    /\ rl_total = RATE_LIMIT + 1
    /\ \E c \in Clients : Len(rl_accepted[c]) = 1

(***************************************************************************)
(* Properties of POST /generate-complete-story                             *)
(***************************************************************************)
\* the accepted calls of a client with a timestamp in [from, from + WINDOW)
AcceptedInWindow(client_ip, from) ==
    Cardinality({j \in 1..Len(rl_accepted[client_ip]) :
        /\ rl_accepted[client_ip][j] >= from
        /\ rl_accepted[client_ip][j] < from + WINDOW})

\* the second sequence ends with the first
IsSuffix(times, history) ==
    /\ Len(times) <= Len(history)
    /\ times = SubSeq(history, Len(history) - Len(times) + 1, Len(history))

\* C13: under every interleaving of requests in flight, of the same or of
\* different clients, the shared limiter accepts at most 100 calls of one
\* client with timestamps within any window of 3600 seconds, and a client's
\* outcome depends on that client's own accepted calls only: its list holds
\* its own calls and no others, and its call is accepted if and only if
\* fewer than 100 of its own accepted calls are newer than 3600 seconds.
C13_SafeUnderInterleaving ==
    /\ \A client_ip \in Clients :
        /\ \A i \in 1..Len(rl_accepted[client_ip]) :
              AcceptedInWindow(client_ip, rl_accepted[client_ip][i]) <= RATE_LIMIT
        /\ IsSuffix(rl_requests[client_ip], rl_accepted[client_ip])
    /\ rl_last # NoValue =>
          (rl_last.raised = 0 <=> NewerThanWindow(AcceptedBefore, rl_last.time) < RATE_LIMIT)

\* two requests of one client are in flight: the first took the client's
\* 100th call of the hour and awaits the story, the second was rejected
C13_Witness ==
    /\ e_pc["first"] = "generating"
    /\ e_pc["second"] = "answered"
    /\ e_call["first"].client_ip = e_call["second"].client_ip
    /\ e_call["first"].raised = 0 /\ e_call["first"].limited_as # {}
    /\ e_call["second"].raised = 429
    /\ AcceptedInWindow(e_call["first"].client_ip, 0) = RATE_LIMIT
    /\ \E other \in Clients : rl_requests[other] = <<>>

\* the request in flight was sent with the shared secret
IsBatchCall(slot) == e_call[slot] # NoValue /\ e_call[slot].api_key = INTERNAL_API_KEY

\* the request in flight was sent with a wrong secret or with none
IsPublicCall(slot) == e_call[slot] # NoValue /\ e_call[slot].api_key # INTERNAL_API_KEY

\* C15: a request with the right shared secret is never checked against the
\* limiter: it is not rejected with 429 and it leaves the recorded
\* timestamps and the total count as they were.  Every other request is
\* checked by check_rate_limit under its client address, and the story is
\* generated only when that call accepted it.
C15_BatchBypassesLimiter ==
    \A slot \in Slots :
        /\ IsBatchCall(slot) =>
            /\ e_call[slot].limited_as = {}
            /\ e_call[slot].limiter_unchanged
            /\ e_pc[slot] = "answered" => e_out[slot].kind = "response"
        /\ IsPublicCall(slot) =>
            /\ e_call[slot].limited_as = {e_call[slot].client_ip}
            /\ (e_pc[slot] = "generating" \/ e_out[slot].engine_called) =>
                    e_call[slot].raised = 0

\* a batch request is served for a client that has used up its public
\* calls of the hour; a public request of the same client is in flight
C15_Witness ==
    /\ IsBatchCall("first") /\ e_pc["first"] = "answered"
    /\ e_out["first"].kind = "response"
    /\ IsPublicCall("second") /\ e_pc["second"] = "generating"
    /\ e_call["first"].client_ip = e_call["second"].client_ip
    /\ LimitReached(Recent(rl_requests[e_call["first"].client_ip], now))

\* C16: when check_rate_limit rejects a public request, the handler ends
\* with the HTTPException 429: the story service is not invoked, the
\* limiter is not called again, and no fallback story is returned.
C16_RateLimitPropagates ==
    \A slot \in Slots :
        (e_call[slot] # NoValue /\ e_call[slot].raised # 0) =>
            /\ e_pc[slot] = "answered"
            /\ e_out[slot].kind = "http_exception"
            /\ e_out[slot].status = 429
            /\ ~e_out[slot].engine_called
            /\ e_out[slot].response = NoValue

\* a public request of a client at the limit was answered with 429
C16_Witness ==
    \E slot \in Slots :
        /\ IsPublicCall(slot)
        /\ e_call[slot].raised = 429
        /\ e_out[slot] = RaisedHTTP(429, FALSE)
        /\ rl_last.raised = 429
        /\ Len(rl_requests[e_call[slot].client_ip]) = RATE_LIMIT

(***************************************************************************)
(* Properties of validate_story_structure                                  *)
(***************************************************************************)
\* the validator returned a report
Reported == v_pc = "answered" /\ v_out.kind = "response"

\* story_data is a mapping whose pages are the empty list or absent
PagesEmptyOrAbsent(story_data) ==
    /\ story_data.kind = "dict"
    /\ story_data.pages.kind \in {"list", "absent"}
    /\ Len(story_data.pages.list) = 0

\* the report holds the error
HasError(report, error) == \E i \in 1..Len(report.errors) : report.errors[i] = error

\* C20: for story data whose pages list is empty or absent the report has
\* is_valid false and an error saying that there are no pages; and in every
\* report is_valid is true exactly when the errors list is empty.
C20_EmptyPagesInvalid ==
    Reported =>
        /\ v_out.response.is_valid <=> v_out.response.errors = <<>>
        /\ PagesEmptyOrAbsent(v_call.story_data) =>
              /\ ~v_out.response.is_valid
              /\ HasError(v_out.response, "no pages")

\* a story with every field and an allowed theme whose pages are the empty
\* list: the missing pages are its only error
C20_Witness ==
    /\ Reported
    /\ v_call.story_data.fields = AllStoryFields
    /\ v_call.story_data.pages = Pages("list", <<>>)
    /\ ThemeAllowed(v_call.story_data.theme)
    /\ v_out.response.errors = <<"no pages">>
    /\ ~v_out.response.is_valid

\* a page with fewer than 2 or more than 4 options, or with an option whose
\* effect is none of health, sanity, none or whose amount lies outside -10..10
PageOutOfContract(page) ==
    /\ page.kind = "dict"
    /\ \/ Len(page.options) < 2
       \/ Len(page.options) > 4
       \/ \E j \in 1..Len(page.options) :
            /\ page.options[j].kind = "ok"
            /\ \/ page.options[j].effect \notin {"health", "sanity", "none"}
               \/ page.options[j].amount \notin -10..10

\* C32: the report of validate_story_structure has is_valid false whenever a
\* page of the story data has fewer than 2 or more than 4 options, or an
\* option with an effect outside {health, sanity, none} or an amount outside
\* [-10, 10].
C32_PageContractEnforced ==
    (Reported /\ v_call.story_data.kind = "dict" /\ v_call.story_data.pages.kind = "list") =>
        ((\E i \in 1..Len(v_call.story_data.pages.list) :
                PageOutOfContract(v_call.story_data.pages.list[i]))
            => ~v_out.response.is_valid)

\* a story with every field, an allowed theme and three pages, the second
\* with MaxOptions options: the report is valid and holds a warning only
C32_Witness ==
    /\ Reported
    /\ v_call.story_data.fields = AllStoryFields
    /\ ThemeAllowed(v_call.story_data.theme)
    /\ v_call.story_data.pages =
            Pages("list", <<PlainPage, PageAnswer("dict", TRUE, Repeat(BaseOption, MaxOptions)),
                            PlainPage>>)
    /\ v_out.response.is_valid
    /\ v_out.response.warnings = <<"too many options">>

(***************************************************************************)
(* Properties of the endpoints that demand the shared secret               *)
(***************************************************************************)
\* C14: a request to the multiplayer endpoint or to the validation endpoint
\* whose X-Internal-API-Key is absent or wrong ends with HTTPException 403,
\* and neither the engine nor the validator was invoked for it.
C14_WrongKeyIs403 ==
    /\ (h_pc = "answered" /\ h_key # INTERNAL_API_KEY) => h_out = RaisedHTTP(403, FALSE)
    /\ (v_pc = "answered" /\ v_call.api_key # INTERNAL_API_KEY) =>
            v_out = RaisedHTTP(403, FALSE)

\* the multiplayer endpoint, sent a wrong key, ended with an exception that
\* is no HTTPException, while the validation endpoint answered 403
C14_Witness ==
    /\ h_pc = "answered" /\ h_key = "wrong-key"
    /\ h_out.kind = "exception"
    /\ ~h_out.engine_called
    /\ v_pc = "answered" /\ v_call.api_key = "wrong-key"
    /\ v_out = RaisedHTTP(403, FALSE)

(***************************************************************************)
(* Properties of _get_fallback_theme                                       *)
(***************************************************************************)
\* C19: for a station of theme_mapping, _get_fallback_theme returns the
\* same theme on every call, the one of the table, whatever was called
\* before; for every station, in the table or not, it returns one of
\* mystery, horror, thriller.
C19_FallbackThemeStable ==
    /\ \A i \in 1..Len(t_calls) :
        /\ t_calls[i].theme \in {"mystery", "horror", "thriller"}
        /\ t_calls[i].station_name \in DOMAIN theme_mapping =>
                t_calls[i].theme = theme_mapping[t_calls[i].station_name]
    /\ \A i, j \in 1..Len(t_calls) :
        (/\ t_calls[i].station_name = t_calls[j].station_name
         /\ t_calls[i].station_name \in DOMAIN theme_mapping) =>
            t_calls[i].theme = t_calls[j].theme

\* gangnam was asked twice with another station in between, whose two
\* calls returned different themes
C19_Witness ==
    /\ Len(t_calls) = 4
    /\ t_calls[1].station_name = "gangnam" /\ t_calls[4].station_name = "gangnam"
    /\ t_calls[1].theme = t_calls[4].theme
    /\ t_calls[2].station_name = "unknown" /\ t_calls[3].station_name = "unknown"
    /\ t_calls[2].theme # t_calls[3].theme

(***************************************************************************)
(* Properties of BatchStoryService (checked under SpecBatch)               *)
(***************************************************************************)
Returned_b == b_pc = "returned"

\* C1: every response of generate_complete_story has a theme of
\* ALLOWED_THEMES, whatever the provider answered to the metadata prompt (an
\* out-of-set theme, no theme, a malformed answer, an exception) and on the
\* whole-story fallback path.
C1_BatchThemeAllowed ==
    Returned_b => b_response.theme \in ALLOWED_THEMES

\* a remote answer with an out-of-set theme became the metadata of an
\* assembled story
C1_Witness ==
    /\ Returned_b
    /\ b_result # NoValue
    /\ b_result.kind = "dict"
    /\ b_result.has_title
    /\ b_result.theme = "romance"
    /\ b_response.kind = "assembled"
    /\ b_response.theme \in ALLOWED_THEMES

OptionWellFormed(opt) ==
    /\ opt.effect \in {"health", "sanity", "none"}
    /\ opt.amount \in -10..10

\* C3: every page of every response of generate_complete_story has 2 to 4
\* options, each with an effect of {health, sanity, none} and an amount in
\* [-10, 10].
C3_PageOptionsWellFormed ==
    Returned_b =>
        \A k \in 1..Len(b_response.pages) :
            LET options == b_response.pages[k].options
            IN /\ Len(options) \in 2..4
               /\ \A i \in 1..Len(options) : OptionWellFormed(options[i])

\* a remote page with an effect outside {health, sanity, none} is part of an
\* assembled story
C3_Witness ==
    /\ Returned_b
    /\ b_response.kind = "assembled"
    /\ \E k \in 1..Len(b_response.pages) :
        /\ b_response.pages[k].kind = "remote"
        /\ b_response.pages[k].options[1].effect = "luck"

\* C17: every response of generate_complete_story has between
\* min_story_length = 3 and max_story_length = 8 pages, whatever
\* estimated_length the provider's metadata proposes.
C17_PageCountBounded ==
    Returned_b =>
        /\ Len(b_response.pages) >= MIN_STORY_LENGTH
        /\ Len(b_response.pages) <= MAX_STORY_LENGTH

\* the metadata proposed one page and the assembled story has one page
C17_Witness ==
    /\ Returned_b
    /\ b_story_info.estimated_length = Length("int", 1)
    /\ b_response.kind = "assembled"
    /\ Len(b_response.pages) = 1

\* C18: every response of generate_complete_story carries the request's
\* station_name and line_number, never those of the provider's metadata, and
\* its estimated_length is the number of its pages; with the Mock provider
\* and a station of theme_mapping its theme is the theme of that table.
C18_EchoesRequest ==
    Returned_b =>
        /\ b_response.station_name = b_request.station_name
        /\ b_response.line_number = b_request.line_number
        /\ b_response.estimated_length = Len(b_response.pages)
        /\ (IsMock(provider) /\ b_request.station_name \in DOMAIN theme_mapping) =>
                b_response.theme = theme_mapping[b_request.station_name]

\* the provider's metadata named another station and another line than the
\* request, and became an assembled story
C18_Witness ==
    /\ Returned_b
    /\ b_response.kind = "assembled"
    /\ b_story_info.station_name \notin {"absent", b_request.station_name}
    /\ b_story_info.line_number # b_request.line_number
    /\ b_response.station_name = b_request.station_name
    /\ b_response.estimated_length = Len(b_response.pages)

\* a BatchStoryResponse that passes the model's validation: at least one
\* page, each page with 2 to 4 options whose amounts lie in -10..10
WellFormedBatchResponse(response) ==
    /\ response.kind \in {"assembled", "fallback"}
    /\ Len(response.pages) >= 1
    /\ response.estimated_length = Len(response.pages)
    /\ \A k \in 1..Len(response.pages) :
        LET options == response.pages[k].options
        IN /\ Len(options) >= 2
           /\ Len(options) <= 4
           /\ \A i \in 1..Len(options) :
                options[i].kind = "ok" /\ options[i].amount \in -10..10

\* the assembly of step 3 meets metadata without description, keywords or
\* difficulty, or an empty page list, or the page loop met a length that is
\* no number
AssemblyFails ==
    \/ ~b_story_info.complete
    \/ b_story_info.keywords # "list"
    \/ b_story_info.estimated_length.kind = "nonint"
    \/ Len(b_pages) = 0

\* C23: generate_complete_story never raises: every call ends with a
\* well-formed BatchStoryResponse, and when the metadata lacks description,
\* keywords or difficulty, or the page count is 0, or the page loop raises,
\* the response is the whole-story fallback with exactly 3 fallback pages.
C23_FallbackWellFormed ==
    Returned_b =>
        /\ WellFormedBatchResponse(b_response)
        /\ AssemblyFails =>
            /\ b_response.kind = "fallback"
            /\ Len(b_response.pages) = FALLBACK_STORY_PAGES
            /\ \A k \in 1..Len(b_response.pages) :
                    b_response.pages[k] = _create_fallback_page(k, b_response.theme)

\* the provider's metadata proposed 0 pages, the page loop made none, and the
\* caller holds the 3-page fallback
C23_Witness ==
    /\ Returned_b
    /\ b_story_info.complete
    /\ b_story_info.estimated_length = Length("int", 0)
    /\ b_pages = <<>>
    /\ b_response.kind = "fallback"
    /\ Len(b_response.pages) = FALLBACK_STORY_PAGES

\* the failures of a page call: a provider exception, a result that is no
\* mapping or lacks content, fewer than 2 well-formed options, more than 4
\* options
PageFails(answer) ==
    \/ answer.kind \in {"raise", "nondict"}
    \/ ~answer.has_content
    \/ Cardinality({i \in 1..Len(answer.options) :
            /\ answer.options[i].kind = "ok"
            /\ answer.options[i].amount \in -10..10}) < 2
    \/ Len(answer.options) > 4

\* the page loop of _generate_story_pages is running or has returned
PageLoopEntered ==
    /\ b_pc \in {"pages", "returned"}
    /\ b_story_info.estimated_length.kind # "nonint"

\* C33: in _generate_story_pages a failure of page k puts the themed fallback
\* page at position k and the loop goes on with page k + 1: the pages are
\* in page order, never more than target_length, and the returned list has
\* exactly target_length pages whatever page calls failed.
C33_PagesDegradePerPage ==
    PageLoopEntered =>
        /\ Len(b_pages) <= TargetLength(b_story_info)
        /\ \A k \in 1..Len(b_pages) : b_pages[k].page_num = k
        /\ (b_answer # NoValue /\ PageFails(b_answer)) =>
                b_pages[Len(b_pages)] =
                    _create_fallback_page(Len(b_pages), b_story_info.theme)
        /\ b_pc = "returned" => Len(b_pages) = TargetLength(b_story_info)

\* a story whose first and last page calls failed and whose second did not:
\* fallback pages at both ends, the remote page between them
C33_Witness ==
    /\ b_pc = "returned"
    /\ Len(b_pages) = DEFAULT_ESTIMATED_LENGTH
    /\ TargetLength(b_story_info) = DEFAULT_ESTIMATED_LENGTH
    /\ b_pages[1].kind = "fallback"
    /\ b_pages[2].kind = "remote"
    /\ b_pages[DEFAULT_ESTIMATED_LENGTH].kind = "fallback"
    /\ b_answer = PageAnswer("raise", FALSE, <<>>)
    /\ b_response.kind = "assembled"

\* the theme handed to the page loop is allowed, and every page made so far
\* was made with it
PagesShareStoryTheme ==
    b_pc \in {"pages", "returned"} =>
        /\ ThemeAllowed(b_story_info.theme)
        /\ \A k \in 1..Len(b_pages) : b_pages[k].theme = b_story_info.theme

\* C34 as stated: the theme is fixed to an allowed value before the first
\* page and never changed: the theme given to every page prompt, mock page
\* and fallback page of a story equals the theme of the returned response.
C34_ThemeOfPagesIsThemeOfResponse ==
    /\ PagesShareStoryTheme
    /\ (Returned_b /\ Len(b_pages) >= 1) => b_response.theme = b_story_info.theme

\* C34, amended: while the page loop runs the theme of story_info is allowed
\* and does not change, and every page is made with it; an assembled
\* response carries that theme, and in every response all pages carry the
\* theme of the response (the whole-story fallback chooses its theme anew).
C34_ThemeFixedWhilePagesAreMade ==
    /\ [](/\ PagesShareStoryTheme
          /\ Returned_b =>
                /\ \A k \in 1..Len(b_response.pages) :
                        b_response.pages[k].theme = b_response.theme
                /\ b_response.kind = "assembled" =>
                        b_response.theme = b_story_info.theme)
    /\ [][b_pc = "pages" => b_story_info' = b_story_info]_vars

\* pages were made with the theme horror, the assembly failed on the missing
\* keywords, and the returned fallback story has the theme thriller
C34_Witness ==
    /\ Returned_b
    /\ Len(b_pages) >= 1
    /\ b_story_info.theme = "horror"
    /\ b_pages[1].theme = "horror"
    /\ b_story_info.keywords = "absent"
    /\ b_response.kind = "fallback"
    /\ b_response.theme = "thriller"

(***************************************************************************)
(* Properties of StoryService (checked under SpecStory)                    *)
(***************************************************************************)
Returned_s == s_pc = "returned"

\* C2: every response of StoryService.generate_story has a theme of
\* ALLOWED_THEMES, on the accepted-draft path, the exhausted-retries path and
\* the exception path alike.
C2_ResponseThemeAllowed ==
    Returned_s => s_response.theme \in ALLOWED_THEMES

\* a structurally valid draft with an out-of-set theme passed the scorer on
\* the first attempt
C2_Witness ==
    /\ Returned_s
    /\ s_history = <<"accepted">>
    /\ s_story.theme = "romance"
    /\ s_response.theme = "romance"

\* every generation call of the finished pipeline run raised
AlwaysRaised ==
    /\ Returned_s
    /\ \A i \in 1..Len(s_history) : s_history[i] = "failed"

\* C4: when generate_story raises on every call, the pipeline makes exactly
\* max_retries attempts and returns the fixed fallback draft: structurally
\* valid, quality_score 60.0 and the bypass marker as quality_feedback.
C4_AlwaysRaisingProvider ==
    AlwaysRaised =>
        /\ Len(s_history) = max_retries
        /\ s_story = _create_fallback_story(s_request)
        /\ _validate_json_structure(s_story)
        /\ s_story.quality_score = FALLBACK_QUALITY_SCORE
        /\ s_story.quality_feedback = FALLBACK_FEEDBACK

C4_Witness ==
    /\ AlwaysRaised
    /\ max_retries = MaxRetriesConfig
    /\ Len(s_history) = MaxRetriesConfig
    /\ s_story.quality_score = FALLBACK_QUALITY_SCORE

\* the scoring call raised, answered no mapping, or a mapping without
\* total_score
ScoringFailed(result) == result.kind \in {"raise", "nondict"} \/ ~result.has_total

\* C21: whenever the scoring call raises, answers a non-mapping or answers a
\* mapping without total_score, the QualityScore has total_score 0, all five
\* sub-scores 0 and passed false, for every configured min_quality_score.
C21_ScoringFailsClosed ==
    (s_quality # NoValue /\ ScoringFailed(s_quality.result)) =>
        /\ s_quality.quality_score.total_score = 0
        /\ s_quality.quality_score.sub_scores = <<0, 0, 0, 0, 0>>
        /\ ~s_quality.quality_score.passed

\* with min_quality_score 0, an answer without total_score passed and its
\* draft was returned
C21_Witness ==
    /\ Returned_s
    /\ min_quality_score = 0
    /\ s_quality # NoValue
    /\ s_quality.result.kind = "dict"
    /\ ~s_quality.result.has_total
    /\ s_quality.quality_score.passed
    /\ s_history[Len(s_history)] = "accepted"

\* the draft without the two members the pipeline attaches to it
Unscored(story_data) == [story_data EXCEPT !.quality_score = 0, !.quality_feedback = ""]

\* C25: every draft _generate_validated_story returns is the fixed fallback
\* draft, or a draft that in the last attempt passed _validate_json_structure
\* and was scored with total_score >= min_quality_score; its quality_score is
\* that attempt's total_score.
C25_ReturnedDraftPassed ==
    Returned_s =>
        \/ s_story = _create_fallback_story(s_request)
        \/ /\ s_history[Len(s_history)] = "accepted"
           /\ _validate_json_structure(Unscored(s_story))
           /\ s_quality.quality_score.passed
           /\ s_quality.quality_score.total_score >= min_quality_score
           /\ s_story.quality_score = s_quality.quality_score.total_score

\* after a failed attempt, a draft scored exactly min_quality_score was
\* returned
C25_Witness ==
    /\ Returned_s
    /\ Len(s_history) >= 2
    /\ s_history[Len(s_history)] = "accepted"
    /\ min_quality_score = DEFAULT_MIN_QUALITY_SCORE
    /\ s_story.quality_score = min_quality_score
    /\ s_story # _create_fallback_story(s_request)

\* the attempts made so far, one after another, within max_retries
AttemptsInSequence ==
    /\ Len(s_history) <= max_retries
    /\ s_calls.generation <= max_retries
    /\ s_calls.scoring <= max_retries
    /\ s_calls.generation = Len(s_history) + (IF s_pc = "scoring" THEN 1 ELSE 0)
    /\ s_calls.scoring <= s_calls.generation
    /\ \A i \in 1..(Len(s_history) - 1) : s_history[i] # "accepted"
    /\ s_pc \in {"generating", "scoring"} =>
            \A i \in 1..Len(s_history) : s_history[i] # "accepted"

\* C26: every call of _generate_validated_story ends, after at most
\* max_retries attempts made one after another: at most max_retries
\* generation calls and at most max_retries scoring calls, and an attempt
\* starts only when every attempt before it has failed.
C26_TerminatesWithinRetries ==
    /\ []AttemptsInSequence
    /\ (s_pc = "generating") ~> Returned_s

\* the last allowed attempt was the first to reach the scorer
C26_Witness ==
    /\ Returned_s
    /\ max_retries = MaxRetriesConfig
    /\ Len(s_history) = MaxRetriesConfig
    /\ s_calls.generation = MaxRetriesConfig
    /\ s_calls.scoring = 1

\* C27: the first attempt whose draft passes validation and scoring ends the
\* call: the draft is returned with quality_score and quality_feedback
\* attached and no generation or scoring call follows it, even when attempts
\* remain.
C27_FirstPassWins ==
    (Returned_s /\ \E i \in 1..Len(s_history) : s_history[i] = "accepted") =>
        /\ s_history[Len(s_history)] = "accepted"
        /\ \A i \in 1..(Len(s_history) - 1) : s_history[i] # "accepted"
        /\ s_calls.generation = Len(s_history)
        /\ s_calls.scoring <= Len(s_history)
        /\ s_story.quality_score = s_quality.quality_score.total_score
        /\ s_story.quality_feedback = s_quality.quality_score.feedback
        /\ Unscored(s_story) \in GenerationAnswers(provider, s_request)

\* the first attempt passed with the lowest passing score while two
\* attempts remained
C27_Witness ==
    /\ Returned_s
    /\ s_history = <<"accepted">>
    /\ max_retries = MaxRetriesConfig
    /\ min_quality_score = DEFAULT_MIN_QUALITY_SCORE
    /\ s_story.quality_score = DEFAULT_MIN_QUALITY_SCORE
    /\ s_calls = [generation |-> 1, scoring |-> 1]

\* C28: during one call, json_failures grows by the number of attempts that
\* reached structural validation and failed it; attempts that end at step 1
\* (provider exception, result without a title) and attempts that fail
\* quality scoring leave it unchanged.
C28_JsonFailuresCounted ==
    s_json_failures = Cardinality({i \in 1..Len(s_history) : s_history[i] = "invalid"})

\* a mapping without story_title was counted as a validation failure
C28_Witness ==
    /\ Len(s_history) = 1
    /\ s_history[1] = "untitled"
    /\ s_json_failures = 1

\* the provider answers every prompt with a story of its own
AnswersStories == IsMock(provider) \/ IsClaude(provider)

\* no attempt was accepted: every attempt passed validation and failed
\* scoring, and the loop ended with the fallback draft
NeverAccepted ==
    /\ \A i \in 1..Len(s_history) : s_history[i] = "rejected"
    /\ s_calls.generation <= max_retries
    /\ s_calls.scoring <= max_retries
    /\ Returned_s =>
        /\ Len(s_history) = max_retries
        /\ s_calls.generation = max_retries
        /\ s_calls.scoring = max_retries
        /\ s_story = _create_fallback_story(s_request)
        /\ s_story.quality_score = 60

ConfiguredRemote(settings) ==
    CASE lower(settings.AI_PROVIDER) = "openai" -> "OpenAIProvider"
      [] lower(settings.AI_PROVIDER) = "claude" -> "ClaudeProvider"
      [] OTHER -> "none"

OtherRemote(class) ==
    CASE class = "OpenAIProvider" -> "ClaudeProvider"
      [] class = "ClaudeProvider" -> "OpenAIProvider"
      [] OTHER -> "none"

\* the credential of the class is non-empty and the provider reports itself
\* available
Qualifies(settings, class) ==
    CASE class = "OpenAIProvider" -> settings.OPENAI_API_KEY # ""
      [] class = "ClaudeProvider" -> settings.CLAUDE_API_KEY # ""
      [] OTHER -> FALSE

\* C22: get_provider returns the configured remote provider when its
\* credential is non-empty and it is available; otherwise the other remote
\* provider by the same test (AI_PROVIDER = openai, no OpenAI key, a Claude
\* key: the Claude provider); the local provider only when no remote
\* provider qualifies.  Stated for the settings that name a remote provider.
C22_FallsThroughToOtherRemote ==
    (f_pc = "returned" /\ ConfiguredRemote(f_settings) # "none") =>
        LET configured == ConfiguredRemote(f_settings)
            other == OtherRemote(configured)
        IN /\ Qualifies(f_settings, configured) => f_provider = configured
           /\ (~Qualifies(f_settings, configured) /\ Qualifies(f_settings, other)) =>
                    f_provider = other
           /\ f_provider = "MockProvider" =>
                    (~Qualifies(f_settings, "OpenAIProvider")
                     /\ ~Qualifies(f_settings, "ClaudeProvider"))

\* AI_PROVIDER = openai with no OpenAI key and a Claude key: the factory
\* returned the local provider
C22_Witness ==
    /\ f_pc = "returned"
    /\ f_settings.importable
    /\ f_settings.AI_PROVIDER = "openai"
    /\ f_settings.OPENAI_API_KEY = ""
    /\ f_settings.CLAUDE_API_KEY = "sk-1"
    /\ f_provider = "MockProvider"

(***************************************************************************)
(* Properties of the routes (checked under SpecRouter)                     *)
(***************************************************************************)
\* C24: POST /generate-story and POST /continue-story are routed: a POST
\* with the empty JSON body {} to either path is answered with 422 and never
\* with 404, and a GET to /generate-story is answered with 405.
C24_StoryRoutesExist ==
    r_pc = "answered" =>
        /\ (/\ r_call.method = "POST"
            /\ r_call.path \in {"/generate-story", "/continue-story"}
            /\ r_call.body = "empty") =>
                (r_status = 422 /\ r_status # 404)
        /\ (r_call.method = "GET" /\ r_call.path = "/generate-story") =>
                r_status = 405

\* a POST of {} to /generate-story was answered with 404
C24_Witness ==
    /\ r_pc = "answered"
    /\ r_call = [method |-> "POST", path |-> "/generate-story", body |-> "empty"]
    /\ r_status = 404

(***************************************************************************)
(* Properties of OpenAIProvider (checked under SpecOpenAI)                 *)
(***************************************************************************)
\* the provider is unavailable, the request timed out or met a client
\* error, or the status is not 200
TransportFails(call) ==
    \/ call.api_key = ""
    \/ call.transport \in {"timeout", "client_error"}
    \/ call.status # 200

\* C30: OpenAIProvider.generate_story raises if and only if the transport
\* fails; on an HTTP 200 response it returns a mapping, the parsed content
\* or the fallback story, and a JSON-shape failure of the response or of its
\* content is never raised.
C30_RaisesOnlyOnTransport ==
    o_pc = "returned" =>
        /\ o_out.kind = "raise" <=> TransportFails(o_call)
        /\ ~TransportFails(o_call) =>
                /\ o_out.kind = "return"
                /\ o_out.value \in {"parsed", "fallback"}

\* a 200 response whose content is valid JSON but a list: the call raised
C30_Witness ==
    /\ o_pc = "returned"
    /\ o_call.api_key = "sk-1"
    /\ o_call.transport = "response"
    /\ o_call.status = 200
    /\ o_call.body = "content"
    /\ o_call.content = "list"
    /\ o_out.kind = "raise"

(***************************************************************************)
(* Properties of the pipelines (checked under SpecPipelines)               *)
(***************************************************************************)
\* what generate_story raises when the transport fails or the answer has
\* another shape than expected
ProviderExceptions == {"timeout", "client_error", "call_failed"}

\* C29: an exception raised by the provider's generate_story is caught by
\* the pipeline that made the call (generate_story, continue_story, the
\* batch metadata and page steps, the multiplayer engine) and never reaches
\* that pipeline's caller; in generate_story every provider call, raising or
\* not, uses exactly one of the max_retries attempts.
C29_ProviderErrorsCaught ==
    /\ Returned_s =>
            /\ s_response # NoValue
            /\ s_calls.generation = Len(s_history)
            /\ s_calls.generation <= max_retries
    /\ c_pc = "returned" => c_out.exc \notin ProviderExceptions
    /\ Returned_b => b_response.kind \in {"assembled", "fallback"}
    /\ m_pc = "returned" => "raised" \notin DOMAIN m_response

\* continue_story with the OpenAI provider, whose call timed out: the
\* exception reached the caller
C29_Witness ==
    /\ c_pc = "returned"
    /\ provider = "OpenAI gpt-4o-mini"
    /\ c_out = ContinueRaised("timeout")

(***************************************************************************)
(* Properties of continue_story (checked under SpecContinue)               *)
(***************************************************************************)
\* C35: for every continuation call with a remote provider, the theme the
\* continuation prompt names and tells the model to keep is the theme of the
\* story being continued, whichever of the three allowed themes that is.
C35_PromptNamesStoryTheme ==
    (c_pc = "returned" /\ ~IsMock(provider)) =>
        c_prompt.current_theme = c_theme

\* a horror story is continued with a prompt that names mystery
C35_Witness ==
    /\ c_pc = "returned" /\ ~IsMock(provider)
    /\ c_theme = "horror"
    /\ c_prompt.kind = "continuation"
    /\ c_prompt.current_theme = "mystery"

(***************************************************************************)
(* Properties of _validate_json_structure (checked under SpecValidator)    *)
(***************************************************************************)
\* the candidate holds every required field, its options are a list of 2 to
\* 4 entries, and every option is a mapping with its four members, an effect
\* of health, sanity or none and an integer amount in -10..10
CandidateWellFormed(candidate) ==
    LET story_data == candidate.story_data
    IN /\ story_data.kind = "dict"
       /\ story_data.missing \cap REQUIRED_FIELDS = {}
       /\ candidate.options_type = "list"
       /\ Len(story_data.options) \in 2..4
       /\ \A i \in 1..Len(story_data.options) :
            /\ story_data.options[i].kind = "ok"
            /\ story_data.options[i].effect \in {"health", "sanity", "none"}
            /\ story_data.options[i].amount \in -10..10

\* C31: _validate_json_structure answers is_valid = true if and only if the
\* candidate holds every required field, 2 to 4 options in a list, and only
\* well-formed options; it returns a result for every candidate, leaves the
\* candidate as it was, and fixed_json is always null.
C31_ValidIffWellFormed ==
    j_pc = "returned" =>
        /\ j_out.is_valid <=> CandidateWellFormed(j_call)
        /\ j_out.is_valid <=> j_out.errors = {}
        /\ j_out.fixed_json = NoValue
        /\ j_out.story_data = j_call.story_data

\* a candidate with every field and two options, the first with the amount
\* 11, was rejected for that amount alone
C31_Witness ==
    /\ j_pc = "returned"
    /\ j_call.options_type = "list"
    /\ j_call.story_data.kind = "dict"
    /\ j_call.story_data.missing = {}
    /\ Len(j_call.story_data.options) = 2
    /\ j_call.story_data.options[1] = Option("ok", "sanity", 11)
    /\ ~j_out.is_valid
    /\ j_out.errors = {<<"amount", 1>>}

(***************************************************************************)
(* Properties of the multiplayer engine (checked under SpecEngine)         *)
(***************************************************************************)
Returned_m == m_pc = "returned"

\* the call was served by _create_mock_response: mock provider, or fallback
\* after the provider raised, answered no mapping, or the parse raised
ServedByMock ==
    \/ IsMock(provider)
    \/ m_result.kind # "dict"
    \/ StoryContentRaises(m_result)
    \/ (~m_request.is_intro /\ EffectsRaise(m_result))

\* C5: an intro request is answered with phase 1, is_ending false and no
\* effects, on every path and whatever request.phase is.
C5_IntroResponse ==
    (Returned_m /\ m_request.is_intro) =>
        /\ m_response.phase = 1
        /\ m_response.is_ending = FALSE
        /\ m_response.effects = <<>>

\* a remote intro answer that carries effects and is_ending, for a late phase
C5_Witness ==
    /\ Returned_m /\ m_request.is_intro /\ m_request.phase >= ENDING_PHASE
    /\ ~IsMock(provider) /\ m_result.kind = "dict" /\ m_result.story = "ok"
    /\ m_result.is_ending = "true" /\ Len(m_result.effects) = 1
    /\ m_response.phase = 1

\* C6: a non-intro request with phase N is answered with phase N + 1 on every
\* path (parsed answer, mock provider, fallback).
C6_PhaseIncrement ==
    (Returned_m /\ ~m_request.is_intro) =>
        m_response.phase = m_request.phase + 1

\* a parsed remote answer for a request of phase 0
C6_Witness ==
    /\ Returned_m /\ ~m_request.is_intro /\ m_request.phase = 0
    /\ ~IsMock(provider) /\ ~ServedByMock
    /\ m_response.phase = 1

HasEndingSummary(response) ==
    response.ending_summary.some /\ response.ending_summary.text # ""

\* C7: on the mock path a non-intro request with phase >= 8 is answered with
\* is_ending and a non-empty ending_summary, one with phase < 8 with neither.
C7_MockEnding ==
    (Returned_m /\ ~m_request.is_intro /\ ServedByMock) =>
        IF m_request.phase >= 8
        THEN m_response.is_ending /\ HasEndingSummary(m_response)
        ELSE ~m_response.is_ending /\ m_response.ending_summary = None

\* the fallback after a provider failure, at the first ending phase
C7_Witness ==
    /\ Returned_m /\ ~m_request.is_intro /\ m_request.phase = 8
    /\ ~IsMock(provider) /\ m_result.kind = "raise"
    /\ m_response.is_ending /\ HasEndingSummary(m_response)

\* C8: in every response, is_ending implies a present, non-empty
\* ending_summary.
C8_EndingHasSummary ==
    Returned_m => (m_response.is_ending => HasEndingSummary(m_response))

\* a parsed remote answer says is_ending and gives no ending_summary
C8_Witness ==
    /\ Returned_m /\ ~m_request.is_intro /\ ~ServedByMock
    /\ m_result.is_ending = "true"
    /\ m_response.is_ending
    /\ m_response.ending_summary = None

EffectNames(response) ==
    {response.effects[i].character_name : i \in 1..Len(response.effects)}

ParticipantNames(request) ==
    {request.participants[i].character_name : i \in 1..Len(request.participants)}

\* C9: the effects of a non-intro response hold exactly one entry per
\* participant of the request, and none for anyone else.
C9_OneEffectPerParticipant ==
    (Returned_m /\ ~m_request.is_intro) =>
        /\ Len(m_response.effects) = Len(m_request.participants)
        /\ EffectNames(m_response) = ParticipantNames(m_request)

\* a parsed remote answer names one of three participants
C9_Witness ==
    /\ Returned_m /\ ~m_request.is_intro /\ ~ServedByMock
    /\ Len(m_request.participants) = MaxParticipants
    /\ Len(m_response.effects) = 1

\* a complete MultiplayerStoryResponse: every member, a story of three
\* texts, a phase the model accepts, a boolean is_ending, effects that are
\* ParticipantUpdate values
CompleteResponse(response) ==
    /\ DOMAIN response = MultiplayerStoryResponseFields
    /\ DOMAIN response.story = {"current_situation", "special_event", "hint"}
    /\ response.phase \in 1..(MaxPhase + 1)
    /\ response.is_ending \in BOOLEAN
    /\ \A i \in 1..Len(response.effects) :
            DOMAIN response.effects[i] = {"character_name", "hp_change", "sanity_change"}

\* C11: generate_next_phase never raises: whatever the provider does
\* (exception, no mapping, malformed story, malformed effects), in the intro
\* and in the later phases, it returns a complete MultiplayerStoryResponse.
C11_AlwaysCompleteResponse ==
    Returned_m => CompleteResponse(m_response)

\* the provider raised for an intro prompt, and gave a malformed effect entry
\* for a phase prompt of a full room
C11_Witness ==
    /\ Returned_m /\ ~IsMock(provider)
    /\ \/ m_request.is_intro /\ m_result.kind = "raise"
       \/ ~m_request.is_intro /\ EffectsRaise(m_result)
    /\ Len(m_request.participants) = MaxParticipants
    /\ CompleteResponse(m_response)

\* the provider answered a mapping whose story is usable and whose effects
\* hold no entry ParticipantUpdate accepts
NoUsableEffects ==
    /\ ~IsMock(provider)
    /\ ~m_request.is_intro
    /\ m_result.kind = "dict"
    /\ ~StoryContentRaises(m_result)
    /\ \A i \in 1..Len(m_result.effects) : m_result.effects[i].kind # "ok"

\* C36: a non-intro request whose provider result holds no effects or only
\* malformed effect entries is answered with one fabricated entry per
\* participant of the request, with hp_change and sanity_change in -2..1.
C36_FabricatedEffects ==
    (Returned_m /\ NoUsableEffects) =>
        /\ Len(m_response.effects) = Len(m_request.participants)
        /\ \A i \in 1..Len(m_response.effects) :
            /\ m_response.effects[i].character_name =
                    m_request.participants[i].character_name
            /\ m_response.effects[i].hp_change \in -2..1
            /\ m_response.effects[i].sanity_change \in -2..1

\* the only effect entry is a mapping ParticipantUpdate rejects, and the
\* first participant lost 3 hp
C36_Witness ==
    /\ Returned_m /\ NoUsableEffects
    /\ m_result.effects = <<EffectEntry("bad", 0)>>
    /\ Len(m_request.participants) >= 1
    /\ m_response.effects[1].hp_change = -3

(***************************************************************************)
(* Properties of _build_story_prompt (checked under SpecStoryPrompt)       *)
(***************************************************************************)
\* C37: the chat history embedded in the prompt is exactly the last
\* min(20, n) messages of the n-message stack, in their order: no earlier
\* message is embedded; an empty stack yields the placeholder.
C37_ChatHistoryIsLastTwenty ==
    w_pc = "returned" =>
        LET stack == w_request.message_stack
            n == Len(stack)
            kept == IF n < 20 THEN n ELSE 20
            history == w_prompt.chat_history
        IN IF n = 0
           THEN history = [kind |-> "placeholder", lines |-> <<>>]
           ELSE /\ history.kind = "lines"
                /\ Len(history.lines) = kept
                /\ \A j \in 1..kept :
                        history.lines[j] =
                            <<stack[n - kept + j].character_name, ": ",
                              stack[n - kept + j].content>>

\* a stack of 22 messages: the prompt starts with the third and ends with
\* the last
C37_Witness ==
    /\ w_pc = "returned"
    /\ Len(w_request.message_stack) = 22
    /\ Len(w_prompt.chat_history.lines) = 20
    /\ w_prompt.chat_history.lines[1][3] = w_request.message_stack[3].content
    /\ w_prompt.chat_history.lines[20][3] = w_request.message_stack[22].content

(***************************************************************************)
(* Properties of a conversation (checked under SpecConversation)           *)
(***************************************************************************)
\* the calls of the conversation so far follow each other as the claim says
ConversationOrderly ==
    \A i \in 1..Len(k_log) :
        /\ k_log[i].is_intro = (i = 1)
        /\ k_log[i].phase = i
        /\ i > 1 =>
            /\ k_log[i].sent = k_log[i - 1].phase
            /\ k_log[i].phase = k_log[i - 1].phase + 1
            /\ k_log[i].sent_outline = k_log[1].outline
            /\ k_log[i].outline = k_log[i].sent_outline
            /\ k_log[i].sent \in 1..7 => ~k_log[i].is_ending
            /\ k_log[i].sent = 8 => k_log[i].is_ending

\* C38: in a conversation on the mock path (intro call, then each response's
\* phase and the intro's outline sent back) the returned phase grows by 1 per
\* call, every later call returns the outline it was sent, is_ending is false
\* for the requests of phase 1..7 and true for the request of phase 8, and
\* every conversation reaches its ending, after the intro and 8 more calls.
C38_ConversationEnds ==
    /\ [](ConversationOrderly /\ Len(k_log) <= 9)
    /\ [](k_pc = "ended" => (Len(k_log) = 9 /\ k_log[9].sent = 8))
    /\ (k_pc = "calling") ~> (k_pc = "ended")

\* a conversation of a one-participant room has ended with its ninth call
C38_Witness ==
    /\ k_pc = "ended"
    /\ Len(k_log) = 9
    /\ k_log[1].is_intro /\ k_log[1].phase = 1
    /\ k_log[9].sent = ENDING_PHASE /\ k_log[9].is_ending
    /\ k_log[9].outline = k_log[1].outline /\ k_log[1].outline # None
    /\ Len(k_request.participants) = 1

(***************************************************************************)
(* Properties of POST /llm/multiplayer/next-phase (under SpecEndpoint)     *)
(***************************************************************************)
\* C10: a request with the right X-Internal-API-Key is answered with a phase
\* response holding story, phase and effects, never with an exception.
C10_EndpointAnswers ==
    (h_pc = "answered" /\ h_key = INTERNAL_API_KEY) =>
        /\ h_out.kind = "response"
        /\ {"story", "phase", "effects"} \subseteq DOMAIN h_out.response

\* the handler ended with an exception before the engine was called
C10_Witness ==
    /\ h_pc = "answered"
    /\ h_key = INTERNAL_API_KEY
    /\ h_out.kind = "exception"
    /\ ~h_out.engine_called

====
